---- MODULE Spec2Model ----
(***************************************************************************)
(* State-machine model of run_generation.py: the training loop driver, the *)
(* checkpoint save/load logic and the best-checkpoint search.              *)
(*                                                                         *)
(* One behaviour is a sequence of process runs over the same checkpoint    *)
(* directory.  Program positions (pc) are placed at every point where a    *)
(* KeyboardInterrupt can be delivered with a different visible outcome.    *)
(*                                                                         *)
(* Abstractions:                                                           *)
(*  - network weights are records [seed, steps]: the random initialisation *)
(*    of the run that created them and the number of optimizer steps       *)
(*    applied; the shadow generator additionally counts the running-       *)
(*    average updates folded into it;                                      *)
(*  - loss values (opaque floats) are integers that identify the iteration *)
(*    and the curve they were produced for;                                *)
(*  - learning rates are exact fractions <<numerator, denominator>> in     *)
(*    units of 1e-4.                                                       *)
(***************************************************************************)
EXTENDS Integers, Sequences, FiniteSets, TLC

\* ------------------------------------------------------------- bounds
MaxEpochs == 2        \* largest value of --epochs explored
ItersPerEpoch == 2    \* len(train_loader)
MaxK == 2             \* largest value of --d_steps_per_g explored
MaxFid == 1           \* FID scores are drawn from 0..MaxFid
MaxRuns == 2          \* number of process runs over one checkpoint directory
MaxN == 2             \* largest batch size explored
MaxBsz == 4           \* largest evaluation batch explored
MaxGpus == 3          \* largest len(gpu_ids) explored
MaxSigma == 2         \* largest truncation_sigma explored
MaxCoords == 2        \* largest number of noise coordinates explored
MaxBatches == 2       \* number of batches followed after startup
MaxUpdates == 2       \* number of running-average updates followed
MaxDim == 2            \* largest dimension of the covariance matrix explored
MaxEvalDs == 3         \* largest evaluation data set, len(eval_ds)
MaxImages == 3         \* largest reference image count, n_images_val
MaxCalls == 2          \* calls of evaluate_fid followed in one process
MaxTrainDraws == 2     \* training draws followed between two evaluations
MaxRequested == 2      \* longest list of visualization indices
MaxIters == 32         \* largest --iters explored
MaxTrainDs == 2        \* largest training set and batch size of a run with --iters

\* -------------------------------------------------- program constants
lr_g == 1             \* --lr_g default 0.0001, in units of 1e-4
lr_d == 4             \* --lr_d default 0.0004, in units of 1e-4
LATEST == 0           \* --which_epoch latest (tag of the rolling checkpoint)
BEST == -1            \* --which_epoch best

VARIABLES
    args,                   \* parsed command line (args.epochs is overwritten at load)
    run,                    \* index of the current process run
    pc,                     \* program position
    epoch, total_it, i,     \* counters; i is the index of enumerate(train_loader)
    g_curve, d_fake_curve, d_real_curve, flat_curve,
    generator, generator_running_avg, discriminator,
    optimizer_g, optimizer_d,
    save_defined,           \* the name save_checkpoint is bound (line 863 executed)
    files,                  \* checkpoint directory: tag -> checkpoint record
    saved,                  \* per tag, the live training state when the file was written
    checkpoints,            \* best search: list of epoch tags still to scan
    best_fid, best_checkpoint,
    hist,                   \* history of the current run (observations only)
    dstep,                  \* one discriminator forward pass and its fake/real split
    pad,                    \* one inference call of evaluate_fid with its padding
    sampler,                \* the truncated-noise sampler: one noise tensor being drawn
    cond,                   \* the conditioning flags, their validation and the signals of the current batch
    ravg,                   \* one generator and its shadow copy, entry by entry, under the running-average update
    stats,                  \* the precomputed real statistics: the stored matrix and s_real_val
    fidrun,                 \* one call of evaluate_fid: passes, accumulated embeddings and the FID subsample
    rng,                    \* the random number generators of a process and what the calls of evaluate_fid drew from
    grid,                   \* the visualization samples of one call of evaluate_fid
    itersrun                \* a fresh training run started with --iters: derived settings and epoch

modelVars == <<generator, generator_running_avg, discriminator, optimizer_g, optimizer_d>>
curveVars == <<g_curve, d_fake_curve, d_real_curve, flat_curve>>
searchVars == <<checkpoints, best_fid, best_checkpoint>>
diskVars == <<files, saved>>
\* The state of the script proper.
mainVars == <<args, run, pc, epoch, total_it, i, curveVars, modelVars, save_defined,
             diskVars, searchVars, hist>>
\* The local state of the functions that are studied one call at a time.
auxVars == <<dstep, pad, sampler, cond, ravg, stats, fidrun, rng, grid, itersrun>>
vars == <<mainVars, auxVars>>
\* Everything but the local state of one function.
except_dstep == <<mainVars, pad, sampler, cond, ravg, stats, fidrun, rng, grid, itersrun>>
except_pad == <<mainVars, dstep, sampler, cond, ravg, stats, fidrun, rng, grid, itersrun>>
except_sampler == <<mainVars, dstep, pad, cond, ravg, stats, fidrun, rng, grid, itersrun>>
except_cond == <<mainVars, dstep, pad, sampler, ravg, stats, fidrun, rng, grid, itersrun>>
except_ravg == <<mainVars, dstep, pad, sampler, cond, stats, fidrun, rng, grid, itersrun>>
except_stats == <<mainVars, dstep, pad, sampler, cond, ravg, fidrun, rng, grid, itersrun>>
except_fidrun == <<mainVars, dstep, pad, sampler, cond, ravg, stats, rng, grid, itersrun>>
except_rng == <<mainVars, dstep, pad, sampler, cond, ravg, stats, fidrun, grid, itersrun>>
except_grid == <<mainVars, dstep, pad, sampler, cond, ravg, stats, fidrun, rng, itersrun>>
except_itersrun == <<mainVars, dstep, pad, sampler, cond, ravg, stats, fidrun, rng, grid>>

\* ------------------------------------------------------------- values
\* A value that does not exist (None, an unbound name, an absent dictionary key).
NoWeights == [seed |-> 0, steps |-> 0, avg |-> 0]
NoOptimizer == [steps |-> 0, lr |-> <<0, 1>>]
INF == MaxFid + 1     \* float('inf'): larger than every FID score

\* Freshly constructed (randomly initialised) network of run r.
FreshWeights(r) == [seed |-> r, steps |-> 0, avg |-> 0]
\* optim.Adam(parameters, lr=base)
FreshOptimizer(base) == [steps |-> 0, lr |-> <<base, 1>>]

Tags == 0..MaxEpochs  \* LATEST and the epoch-numbered tags

Min(a, b) == IF a <= b THEN a ELSE b
Max(a, b) == IF a >= b THEN a ELSE b

\* Loss values of iteration t, one distinct number per curve.
LossG(t) == 4 * t + 1
LossFlat(t) == 4 * t + 2
LossDFake(t) == 4 * t + 3
LossDReal(t) == 4 * t + 4

\* ------------------------------------------------- checkpoint records
\* A checkpoint file.  has_epoch: the keys 'epoch', 'iteration', the curves and
\* 'generator' are in the file; has_train: the keys 'optimizer_g', 'optimizer_d'
\* and 'discriminator' are in the file.
NoFile ==
    [present |-> FALSE, has_epoch |-> FALSE, has_train |-> FALSE,
     epoch |-> 0, iteration |-> 0,
     g_curve |-> <<>>, d_fake_curve |-> <<>>, d_real_curve |-> <<>>, flat_curve |-> <<>>,
     generator |-> NoWeights, generator_running_avg |-> NoWeights,
     discriminator |-> NoWeights,
     optimizer_g |-> NoOptimizer, optimizer_d |-> NoOptimizer]

\* A weights-only artifact produced outside this program (no 'epoch' key):
\* the shadow generator of some other training, with or without the
\* training-only keys.
PretrainedWeights == [seed |-> MaxRuns + 1, steps |-> 1, avg |-> 1]
WeightsOnlyFile(with_train) ==
    [NoFile EXCEPT !.present = TRUE, !.has_train = with_train,
                   !.generator_running_avg = PretrainedWeights,
                   !.discriminator = IF with_train THEN PretrainedWeights ELSE NoWeights,
                   !.optimizer_g = IF with_train THEN [steps |-> 1, lr |-> <<lr_g, 1>>]
                                   ELSE NoOptimizer,
                   !.optimizer_d = IF with_train THEN [steps |-> 1, lr |-> <<lr_d, 1>>]
                                   ELSE NoOptimizer]

\* out_dict of save_checkpoint, built from the live state.
\* (Variant: the two discriminator curves are stored under each other's key.)
OutDict_swapped ==
    [present |-> TRUE, has_epoch |-> TRUE, has_train |-> TRUE,
     epoch |-> epoch, iteration |-> total_it,
     g_curve |-> g_curve, d_fake_curve |-> d_real_curve,
     d_real_curve |-> d_fake_curve, flat_curve |-> flat_curve,
     generator |-> generator, generator_running_avg |-> generator_running_avg,
     discriminator |-> discriminator,
     optimizer_g |-> optimizer_g, optimizer_d |-> optimizer_d]
OutDict ==
    [present |-> TRUE, has_epoch |-> TRUE, has_train |-> TRUE,
     epoch |-> epoch, iteration |-> total_it,
     g_curve |-> g_curve, d_fake_curve |-> d_fake_curve,
     d_real_curve |-> d_real_curve, flat_curve |-> flat_curve,
     generator |-> generator, generator_running_avg |-> generator_running_avg,
     discriminator |-> discriminator,
     optimizer_g |-> optimizer_g, optimizer_d |-> optimizer_d]

\* torch.save(out_dict, checkpoint_<it>.pth): the file of tag `it` is replaced,
\* every other file is left alone.
\* (Variant: the tag is ignored and the rolling file is written.)
save_checkpoint_rolling(it) == [files EXCEPT ![LATEST] = OutDict]
save_checkpoint(it) == [files EXCEPT ![it] = OutDict]

\* The live training state, as a tuple (observation only).
LiveState ==
    <<epoch, total_it, g_curve, d_fake_curve, d_real_curve, flat_curve, generator,
      generator_running_avg, discriminator, optimizer_g, optimizer_d>>

\* A call of save_checkpoint(it); `saved` remembers the state it was called in.
WriteCheckpoint(it) ==
    /\ files' = save_checkpoint(it)
    /\ saved' = [saved EXCEPT ![it] = LiveState]

\* ------------------------------------------------------ configuration
\* Lines 102-103: --export_sample sets args.evaluate.
\* (Variant: it does not.)
Evaluates_flag_only(m) == m.evaluate
Evaluates(m) == m.evaluate \/ m.export_sample

\* The mode flags as given on the command line.
Modes ==
    {[evaluate |-> FALSE, continue_train |-> FALSE, which_epoch |-> LATEST,
      export_sample |-> FALSE]}
    \cup [evaluate : {FALSE}, continue_train : {TRUE}, which_epoch : {LATEST} \cup 1..MaxEpochs,
          export_sample : {FALSE}]
    \cup [evaluate : {TRUE}, continue_train : {FALSE}, which_epoch : {BEST, LATEST} \cup 1..MaxEpochs,
          export_sample : {FALSE}]
    \cup {[evaluate |-> TRUE, continue_train |-> TRUE, which_epoch |-> LATEST,
           export_sample |-> FALSE]}
    \cup {[evaluate |-> FALSE, continue_train |-> FALSE, which_epoch |-> LATEST,
           export_sample |-> TRUE]}

\* The experiments explored: from one reference experiment, each setting is
\* varied over its whole range while the others keep the reference value.
ReferenceSettings ==
    [epochs |-> MaxEpochs, d_steps_per_g |-> MaxK, lr_decay_after |-> 0,
     save_freq |-> 1, checkpoint_freq |-> 1]

Settings ==
    {[ReferenceSettings EXCEPT !.epochs = e] : e \in 0..MaxEpochs}
    \cup {[ReferenceSettings EXCEPT !.d_steps_per_g = k] : k \in 0..MaxK}
    \cup {[ReferenceSettings EXCEPT !.lr_decay_after = d] : d \in 0..MaxEpochs}
    \cup {[ReferenceSettings EXCEPT !.save_freq = s, !.checkpoint_freq = c] :
              s \in 1..2, c \in 1..2}
    \cup {[ReferenceSettings EXCEPT !.epochs = MaxEpochs - 1, !.save_freq = 2,
                                    !.checkpoint_freq = c] : c \in 1..2}

\* args after argument parsing: the settings of the experiment and the mode of
\* this run.  evaluate_freq follows checkpoint_freq (same default, line 133).
\* cli_epochs keeps --epochs as given (args.epochs is overwritten at load).
ParseArgs(s, m) ==
    [epochs |-> s.epochs, cli_epochs |-> s.epochs, d_steps_per_g |-> s.d_steps_per_g,
     lr_decay_after |-> s.lr_decay_after, save_freq |-> s.save_freq,
     checkpoint_freq |-> s.checkpoint_freq, evaluate_freq |-> s.checkpoint_freq,
     evaluate |-> Evaluates(m), export_sample |-> m.export_sample,
     continue_train |-> m.continue_train, which_epoch |-> m.which_epoch]

\* The experiment's settings, kept from one run to the next.
SettingsOf(a) ==
    [epochs |-> a.cli_epochs, d_steps_per_g |-> a.d_steps_per_g,
     lr_decay_after |-> a.lr_decay_after, save_freq |-> a.save_freq,
     checkpoint_freq |-> a.checkpoint_freq]

\* What is recorded about the current run, for the properties only.
\* steps: the kind of step selected at each iteration; interrupted: a
\* KeyboardInterrupt was caught by the training loop's handler; loaded: the file
\* read by the startup load; scanned: the candidates the best search evaluated;
\* search_interrupted: "no", or where the search was interrupted; final_eval: the
\* shadow-generator weights the final full evaluation ran on.
NoHist == [steps |-> <<>>, interrupted |-> FALSE, loaded |-> NoFile, log_file |-> "none",
           scanned |-> <<>>, search_interrupted |-> "no", final_eval |-> NoWeights]

InitialFiles ==
    {[t \in Tags |-> NoFile]}
    \cup {[t \in Tags |-> IF t = LATEST THEN WeightsOnlyFile(w) ELSE NoFile] : w \in BOOLEAN}

\* Tensors are sequences of rows along dim 0.  A value that may be None, a
\* tensor or a list of tensors/None is a record with its kind.
None == [kind |-> "none", rows |-> <<>>, elems |-> <<>>]
Tensor(rows) == [kind |-> "tensor", rows |-> rows, elems |-> <<>>]
List(elems) == [kind |-> "list", rows |-> <<>>, elems |-> elems]

\* No discriminator forward pass is in progress.
NoDStep == [pc |-> "idle", N |-> 0, X_fake |-> <<>>, X_real |-> <<>>,
            X_combined |-> <<>>, X_combined_mesh |-> None, seg_combined |-> None,
            discriminated |-> None, mask |-> None,
            discriminated_fake |-> None, discriminated_real |-> None,
            mask_fake |-> None, mask_real |-> None,
            loss_fake |-> [input |-> None, target_is_real |-> FALSE, mask |-> None],
            loss_real |-> [input |-> None, target_is_real |-> FALSE, mask |-> None]]

\* No inference call of evaluate_fid is in progress.
NoPad == [pc |-> "idle", N |-> 0, R |-> 0, predict_semantics |-> FALSE,
          noise |-> None, c |-> None, seg |-> None,
          calls |-> <<>>,
          pred_tex |-> None, pred_mesh_map |-> None, pred_seg |-> None, attn_map |-> None]

\* No noise is being drawn.
NoNoise == [pc |-> "idle", sigma |-> 1, x |-> <<>>, redrawn |-> FALSE]

\* The conditioning flags of the command line.
NoFlags == [conditional_class |-> FALSE, conditional_color |-> FALSE,
            conditional_text |-> FALSE, conditional_semantics |-> FALSE,
            predict_semantics |-> FALSE, evaluate |-> FALSE, filter_class |-> FALSE]

\* No command line has been parsed.
NoCond == [pc |-> "start", flags |-> NoFlags, loop |-> "none",
           C |-> "None", caption |-> "None", seg |-> "None", batches |-> 0]

\* No generator has been constructed.
NoRavg == [pc |-> "idle", alpha |-> <<1, 1>>, epoch |-> 0, floating |-> <<>>,
           live |-> <<>>, shadow |-> <<>>, before |-> <<>>, updates |-> 0]

\* The statistics file has not been read.
NoStats == [pc |-> "start", n |-> 0, stats_s |-> <<>>, s_real_val |-> <<>>,
            used |-> <<>>]

\* evaluate_fid has not been called.
NoFidRun == [pc |-> "idle", L |-> 0, n |-> 0, batch_size |-> 0, has_pseudogt |-> FALSE,
             num_passes |-> 0, pass |-> 0, offset |-> 0,
             emb_arr_fake_combined |-> <<>>, emb_arr_fake_texture_only |-> <<>>,
             emb_arr_fake_mesh_only |-> <<>>, val_indices |-> <<>>,
             used_combined |-> <<>>, used_texture_only |-> <<>>, used_mesh_only |-> <<>>]

\* No process is running: the random number generators do not exist yet.
NoRng == [pc |-> "idle", evaluate |-> FALSE, filter_class |-> FALSE, batches |-> 0,
          torch |-> <<>>, numpy |-> <<>>, b |-> 0, noise |-> <<>>, calls |-> <<>>]

\* evaluate_fid has not been called with visualization indices.
NoGrid == [pc |-> "idle", L |-> 0, batch_size |-> 0, num_passes |-> 0,
           indices_to_render |-> <<>>, shuffle_idx |-> <<>>, pass |-> 0, offset |-> 0,
           sample_fake |-> <<>>]

\* No process with --iters has been started.
NoItersRun == [pc |-> "idle", iters |-> 0, len_train_ds |-> 0, batch_size |-> 0,
               epochs |-> 0, evaluate_freq |-> 0, checkpoint_freq |-> 0, epoch |-> 0]

\* No studied function is in the middle of a call.
AuxIdle ==
    /\ dstep = NoDStep
    /\ pad = NoPad
    /\ sampler = NoNoise
    /\ cond = NoCond
    /\ ravg = NoRavg
    /\ stats = NoStats
    /\ fidrun = NoFidRun
    /\ rng = NoRng
    /\ grid = NoGrid
    /\ itersrun = NoItersRun

\* Before the first process is started: an experiment (its settings) and a
\* checkpoint directory that is empty or holds a weights-only artifact.
Init ==
    /\ files \in InitialFiles
    /\ saved = [t \in Tags |-> <<>>]
    /\ AuxIdle
    /\ \E s \in Settings :
         args = ParseArgs(s, [evaluate |-> FALSE, continue_train |-> FALSE,
                              which_epoch |-> LATEST, export_sample |-> FALSE])
    /\ run = 0
    /\ pc = "boot"
    /\ epoch = 0
    /\ total_it = 0
    /\ i = 0
    /\ g_curve = <<0>>
    /\ d_fake_curve = <<0>>
    /\ d_real_curve = <<0>>
    /\ flat_curve = <<0>>
    /\ generator = NoWeights
    /\ generator_running_avg = NoWeights
    /\ discriminator = NoWeights
    /\ optimizer_g = NoOptimizer
    /\ optimizer_d = NoOptimizer
    /\ save_defined = FALSE
    /\ checkpoints = <<>>
    /\ best_fid = INF
    /\ best_checkpoint = 0
    /\ hist = NoHist

\* A process is started with some mode flags: argument parsing and the
\* module-level construction of trainer, optimizers, curves and counters,
\* up to the checkpoint load.  The shadow generator is a copy of the generator;
\* in evaluate mode there is no discriminator and there are no optimizers.
StartRun ==
    /\ pc \in {"boot", "done", "crashed", "exited"}
    /\ run < MaxRuns
    /\ \E m \in Modes :
         /\ args' = ParseArgs(SettingsOf(args), m)
         /\ discriminator' = IF Evaluates(m) THEN NoWeights ELSE FreshWeights(run + 1)
         /\ optimizer_g' = IF Evaluates(m) THEN NoOptimizer ELSE FreshOptimizer(lr_g)
         /\ optimizer_d' = IF Evaluates(m) THEN NoOptimizer ELSE FreshOptimizer(lr_d)
    /\ run' = run + 1
    /\ pc' = "load"
    /\ epoch' = 0
    /\ total_it' = 0
    /\ i' = 0
    /\ g_curve' = <<0>>
    /\ d_fake_curve' = <<0>>
    /\ d_real_curve' = <<0>>
    /\ flat_curve' = <<0>>
    /\ generator' = FreshWeights(run + 1)
    /\ generator_running_avg' = FreshWeights(run + 1)
    /\ save_defined' = FALSE
    /\ checkpoints' = <<>>
    /\ best_fid' = INF
    /\ best_checkpoint' = 0
    /\ hist' = NoHist
    /\ UNCHANGED <<diskVars, auxVars>>

\* The process ends with an uncaught exception.
Crash == pc' = "crashed"

\* Line 711: 'epoch' in chk.  (Variant: the key is taken to be always there.)
HasEpochKey_always(chk) == TRUE
HasEpochKey(chk) == chk.has_epoch

\* Checkpoint load at startup (lines 703-737).

LoadAtStartup ==
    /\ pc = "load"
    /\ UNCHANGED <<run, i, save_defined, diskVars, searchVars, auxVars>>
    /\ IF ~(args.continue_train \/ args.evaluate)
       THEN /\ pc' = "open_log"
            /\ UNCHANGED <<args, epoch, total_it, curveVars, modelVars, hist>>
       ELSE LET which_epoch == IF args.which_epoch = BEST THEN LATEST ELSE args.which_epoch
                chk == files[which_epoch]
            IN  IF ~chk.present
                THEN \* torch.load raises FileNotFoundError
                     /\ Crash
                     /\ UNCHANGED <<args, epoch, total_it, curveVars, modelVars, hist>>
                ELSE /\ hist' = [hist EXCEPT !.loaded = chk]
                     /\ IF HasEpochKey(chk)
                        THEN /\ epoch' = chk.epoch
                             /\ total_it' = chk.iteration
                             /\ g_curve' = chk.g_curve
                             /\ d_fake_curve' = chk.d_fake_curve
                             /\ d_real_curve' = chk.d_real_curve
                             /\ flat_curve' = chk.flat_curve
                             /\ generator' = chk.generator
                        ELSE UNCHANGED <<epoch, total_it, curveVars, generator>>
                     /\ generator_running_avg' = chk.generator_running_avg
                     /\ IF args.continue_train
                        THEN IF args.evaluate \/ ~chk.has_train
                             THEN \* optimizer_g is unbound in evaluate mode (NameError);
                                  \* chk['optimizer_g'] is absent (KeyError)
                                  /\ Crash
                                  /\ UNCHANGED <<args, discriminator, optimizer_g, optimizer_d>>
                             ELSE /\ optimizer_g' = chk.optimizer_g
                                  /\ discriminator' = chk.discriminator
                                  /\ optimizer_d' = chk.optimizer_d
                                  /\ pc' = "open_log"
                                  /\ UNCHANGED args
                        ELSE /\ args' = [args EXCEPT !.epochs = -1]
                             /\ pc' = "open_log"
                             /\ UNCHANGED <<discriminator, optimizer_g, optimizer_d>>

\* Lines 739-752: a training run creates the checkpoint directory and opens
\* log.txt (appending when it resumes); an evaluate run opens no log file.
OpenLog ==
    /\ pc = "open_log"
    /\ hist' = [hist EXCEPT !.log_file = IF args.evaluate THEN "none"
                                         ELSE IF args.continue_train THEN "a" ELSE "w"]
    /\ pc' = "loop_head"
    /\ UNCHANGED <<args, run, epoch, total_it, i, curveVars, modelVars, save_defined,
                   diskVars, searchVars, auxVars>>

\* ------------------------------------------------------ training loop
\* Line 804: the step of global iteration t is a generator step.
\* (Variant: the period is one iteration too long.)
IsGeneratorStep_long(t, k) == t % (2 + k) = 0
IsGeneratorStep(t, k) == t % (1 + k) = 0

\* while epoch < args.epochs: ... for i, data in enumerate(train_loader):
LoopHead ==
    /\ pc = "loop_head"
    /\ IF epoch < args.epochs
       THEN pc' = "for" /\ i' = 0
       ELSE pc' = "after_loop" /\ UNCHANGED i
    /\ UNCHANGED <<args, run, epoch, total_it, curveVars, modelVars, save_defined,
                   diskVars, searchVars, hist, auxVars>>

\* The next batch is fetched and the kind of step is selected (lines 776-804),
\* or the data loader is exhausted and the epoch ends.
NextBatch ==
    /\ pc = "for"
    /\ IF i < ItersPerEpoch
       THEN LET kind == IF IsGeneratorStep(total_it, args.d_steps_per_g) THEN "g" ELSE "d"
            IN  /\ pc' = IF kind = "g" THEN "g_flat" ELSE "d_opt"
                /\ hist' = [hist EXCEPT !.steps = Append(@, [t |-> total_it, kind |-> kind,
                                                              epoch |-> epoch])]
       ELSE pc' = "epoch_inc" /\ UNCHANGED hist
    /\ UNCHANGED <<args, run, epoch, total_it, i, curveVars, modelVars, save_defined,
                   diskVars, searchVars, auxVars>>

\* optimizer.step(): the optimizer state advances and its network's weights change.
OptimizerStep(opt) == [opt EXCEPT !.steps = @ + 1]
Updated(w) == [w EXCEPT !.steps = @ + 1]

\* update_generator_running_avg: the current generator is folded into the shadow.
\* (Variant: the shadow is updated twice in a generator step.)
update_generator_running_avg_twice(avg, g) ==
    [seed |-> g.seed, steps |-> g.steps, avg |-> avg.avg + 2]
update_generator_running_avg(avg, g) ==
    [seed |-> g.seed, steps |-> g.steps, avg |-> avg.avg + 1]

\* --- generator step (lines 806-826)
GFlat ==        \* line 813: flat_curve.append(flat_loss.item())
    /\ pc = "g_flat"
    /\ flat_curve' = Append(flat_curve, LossFlat(total_it))
    /\ pc' = "g_opt"
    /\ UNCHANGED <<args, run, epoch, total_it, i, g_curve, d_fake_curve, d_real_curve,
                   modelVars, save_defined, diskVars, searchVars, hist, auxVars>>

GOptimizerStep ==   \* lines 817-820: loss.backward(); optimizer_g.step()
    /\ pc = "g_opt"
    /\ optimizer_g' = OptimizerStep(optimizer_g)
    /\ generator' = Updated(generator)
    /\ pc' = "g_avg"
    /\ UNCHANGED <<args, run, epoch, total_it, i, curveVars, generator_running_avg,
                   discriminator, optimizer_d, save_defined, diskVars, searchVars, hist, auxVars>>

GRunningAvg ==      \* line 821
    /\ pc = "g_avg"
    /\ generator_running_avg' = update_generator_running_avg(generator_running_avg, generator)
    /\ pc' = "g_curve"
    /\ UNCHANGED <<args, run, epoch, total_it, i, curveVars, generator, discriminator,
                   optimizer_g, optimizer_d, save_defined, diskVars, searchVars, hist, auxVars>>

GCurve ==           \* line 822: g_curve.append(loss_gan.item())
    /\ pc = "g_curve"
    /\ g_curve' = Append(g_curve, LossG(total_it))
    /\ pc' = "it_inc"
    /\ UNCHANGED <<args, run, epoch, total_it, i, d_fake_curve, d_real_curve, flat_curve,
                   modelVars, save_defined, diskVars, searchVars, hist, auxVars>>

\* --- discriminator step (lines 830-842)
DOptimizerStep ==   \* lines 830-837: loss.backward(); optimizer_d.step()
    /\ pc = "d_opt"
    /\ optimizer_d' = OptimizerStep(optimizer_d)
    /\ discriminator' = Updated(discriminator)
    /\ pc' = "d_fake"
    /\ UNCHANGED <<args, run, epoch, total_it, i, curveVars, generator,
                   generator_running_avg, optimizer_g, save_defined, diskVars, searchVars, hist, auxVars>>

DFakeCurve ==       \* line 838
    /\ pc = "d_fake"
    /\ d_fake_curve' = Append(d_fake_curve, LossDFake(total_it))
    /\ pc' = "d_real"
    /\ UNCHANGED <<args, run, epoch, total_it, i, g_curve, d_real_curve, flat_curve,
                   modelVars, save_defined, diskVars, searchVars, hist, auxVars>>

DRealCurve ==       \* line 839
    /\ pc = "d_real"
    /\ d_real_curve' = Append(d_real_curve, LossDReal(total_it))
    /\ pc' = "it_inc"
    /\ UNCHANGED <<args, run, epoch, total_it, i, g_curve, d_fake_curve, flat_curve,
                   modelVars, save_defined, diskVars, searchVars, hist, auxVars>>

\* Lines 844-850: the log line, total_it += 1, and the for loop advances.
IterationEnd ==
    /\ pc = "it_inc"
    /\ total_it' = total_it + 1
    /\ i' = i + 1
    /\ pc' = "for"
    /\ UNCHANGED <<args, run, epoch, curveVars, modelVars, save_defined, diskVars,
                   searchVars, hist, auxVars>>

\* --- end of an epoch (lines 852-891)
EpochIncrement ==   \* line 852
    /\ pc = "epoch_inc"
    /\ epoch' = epoch + 1
    /\ pc' = "lr_decay"
    /\ UNCHANGED <<args, run, total_it, i, curveVars, modelVars, save_defined, diskVars,
                   searchVars, hist, auxVars>>

\* Line 857, as the fraction <<numerator, denominator>>:
\* factor = 1 - min(max((epoch - lr_decay_after)/(epochs - lr_decay_after), 0), 1)
\* (Variant: the complement to 1 is forgotten.)
LrFactor_no_complement(e, decay_after, epochs) ==
    LET num == e - decay_after
        den == epochs - decay_after
        lo == IF num < 0 THEN 0 ELSE num
        hi == IF lo > den THEN den ELSE lo
    IN  <<hi, den>>
LrFactor(e, decay_after, epochs) ==
    LET num == e - decay_after
        den == epochs - decay_after
        lo == IF num < 0 THEN 0 ELSE num          \* max(x, 0)
        hi == IF lo > den THEN den ELSE lo        \* min(x, 1)
    IN  <<den - hi, den>>

\* Line 856: the condition under which the learning rates are recomputed.
LrDecayApplies(e, decay_after, epochs) == e >= decay_after /\ e < epochs

LrDecay ==          \* lines 856-861
    /\ pc = "lr_decay"
    /\ IF LrDecayApplies(epoch, args.lr_decay_after, args.epochs)
       THEN LET factor == LrFactor(epoch, args.lr_decay_after, args.epochs)
            IN  /\ optimizer_g' = [optimizer_g EXCEPT !.lr = <<lr_g * factor[1], factor[2]>>]
                /\ optimizer_d' = [optimizer_d EXCEPT !.lr = <<lr_d * factor[1], factor[2]>>]
       ELSE UNCHANGED <<optimizer_g, optimizer_d>>
    /\ pc' = "def_save"
    /\ UNCHANGED <<args, run, epoch, total_it, i, curveVars, generator,
                   generator_running_avg, discriminator, save_defined, diskVars,
                   searchVars, hist, auxVars>>

DefSaveCheckpoint ==    \* line 863: def save_checkpoint(it) binds the name
    /\ pc = "def_save"
    /\ save_defined' = TRUE
    /\ pc' = "save_latest"
    /\ UNCHANGED <<args, run, epoch, total_it, i, curveVars, modelVars, diskVars,
                   searchVars, hist, auxVars>>

PeriodicSaveLatest ==   \* lines 886-887
    /\ pc = "save_latest"
    /\ IF epoch % args.save_freq = 0 THEN WriteCheckpoint(LATEST) ELSE UNCHANGED diskVars
    /\ pc' = "save_numbered"
    /\ UNCHANGED <<args, run, epoch, total_it, i, curveVars, modelVars, save_defined,
                   searchVars, hist, auxVars>>

PeriodicSaveNumbered == \* lines 888-889
    /\ pc = "save_numbered"
    /\ IF epoch % args.checkpoint_freq = 0 THEN WriteCheckpoint(epoch) ELSE UNCHANGED diskVars
    /\ pc' = "evaluate"
    /\ UNCHANGED <<args, run, epoch, total_it, i, curveVars, modelVars, save_defined,
                   searchVars, hist, auxVars>>

PeriodicEvaluate ==     \* lines 890-891: evaluate_fid runs inference only
    /\ pc = "evaluate"
    /\ pc' = "loop_head"
    /\ UNCHANGED <<args, run, epoch, total_it, i, curveVars, modelVars, save_defined,
                   diskVars, searchVars, hist, auxVars>>

\* --- KeyboardInterrupt inside the try block (lines 772-894)
TryBlock == {"loop_head", "for", "g_flat", "g_opt", "g_avg", "g_curve", "d_opt",
             "d_fake", "d_real", "it_inc", "epoch_inc", "lr_decay", "def_save",
             "save_latest", "save_numbered", "evaluate"}

KeyboardInterrupt ==
    /\ pc \in TryBlock
    /\ pc' = "after_loop"
    /\ hist' = [hist EXCEPT !.interrupted = TRUE]
    /\ UNCHANGED <<args, run, epoch, total_it, i, curveVars, modelVars, save_defined,
                   diskVars, searchVars, auxVars>>

\* --- after the loop (lines 896-899)
AfterLoop ==
    /\ pc = "after_loop"
    /\ IF ~args.evaluate
       THEN IF save_defined
            THEN WriteCheckpoint(LATEST) /\ pc' = "finish"
            ELSE \* NameError: name 'save_checkpoint' is not defined
                 Crash /\ UNCHANGED diskVars
       ELSE /\ pc' = IF args.export_sample THEN "export"
                    ELSE IF args.which_epoch = BEST THEN "enumerate" ELSE "final_eval"
            /\ UNCHANGED diskVars
    /\ UNCHANGED <<args, run, epoch, total_it, i, curveVars, modelVars, save_defined,
                   searchVars, hist, auxVars>>

\* ------------------------------------- best-checkpoint search (901-947)
\* sorted(checkpoints.items())[::-1] over the tags 1..n with a file: the epoch
\* numbers in descending order.
RECURSIVE Descending(_)
Descending(n) ==
    IF n = 0 THEN <<>>
    ELSE (IF files[n].present THEN <<n>> ELSE <<>>) \o Descending(n - 1)

EnumerateCheckpoints ==     \* lines 904-924
    /\ pc = "enumerate"
    /\ best_fid' = INF
    /\ best_checkpoint' = 0
    /\ checkpoints' = Descending(MaxEpochs)
    /\ pc' = IF Len(checkpoints') = 0 THEN "exited" ELSE "scan_load"    \* sys.exit(1)
    /\ UNCHANGED <<args, run, epoch, total_it, i, curveVars, modelVars, save_defined,
                   diskVars, hist, auxVars>>

\* load_checkpoint(path), lines 926-929: None stands for no path (torch.load fails).
load_checkpoint(path) ==
    /\ generator_running_avg' = files[path].generator_running_avg
    /\ generator' = files[path].generator

ScanLoad ==                 \* lines 932-934, or the for loop is exhausted
    /\ pc = "scan_load"
    /\ IF Len(checkpoints) > 0
       THEN load_checkpoint(Head(checkpoints)) /\ pc' = "scan_eval"
       ELSE pc' = "final_reload" /\ UNCHANGED <<generator, generator_running_avg>>
    /\ UNCHANGED <<args, run, epoch, total_it, i, curveVars, discriminator, optimizer_g,
                   optimizer_d, save_defined, diskVars, searchVars, hist, auxVars>>

\* Line 941: the candidate replaces the best one found so far.
\* (Variant: a tie replaces it too.)
IsBetter_or_equal(fid, best) == fid <= best
IsBetter(fid, best) == fid < best

ScanEvaluate ==             \* lines 936, 941-944: evaluate_fid(..., fast=True) returns
    /\ pc = "scan_eval"
    /\ \E fid \in 0..MaxFid :
         /\ IF IsBetter(fid, best_fid)
            THEN best_fid' = fid /\ best_checkpoint' = Head(checkpoints)
            ELSE UNCHANGED <<best_fid, best_checkpoint>>
         /\ hist' = [hist EXCEPT !.scanned =
                        Append(@, [epoch |-> Head(checkpoints), fid |-> fid, fast |-> TRUE,
                                   weights |-> generator_running_avg])]
    /\ checkpoints' = Tail(checkpoints)
    /\ pc' = "scan_load"
    /\ UNCHANGED <<args, run, epoch, total_it, i, curveVars, modelVars, save_defined, diskVars, auxVars>>

ScanInterrupt ==            \* lines 937-939: KeyboardInterrupt inside evaluate_fid
    /\ pc = "scan_eval"
    /\ pc' = "final_reload"
    /\ hist' = [hist EXCEPT !.search_interrupted = "evaluating"]
    /\ UNCHANGED <<args, run, epoch, total_it, i, curveVars, modelVars, save_defined,
                   diskVars, searchVars, auxVars>>

\* KeyboardInterrupt in the scan outside the inner try (while a candidate is
\* being loaded): no handler, the process ends with the traceback.
ScanInterruptUncaught ==
    /\ pc = "scan_load"
    /\ Len(checkpoints) > 0
    /\ Crash
    /\ hist' = [hist EXCEPT !.search_interrupted = "loading"]
    /\ UNCHANGED <<args, run, epoch, total_it, i, curveVars, modelVars, save_defined,
                   diskVars, searchVars, auxVars>>

FinalReload ==              \* lines 946-947: load_checkpoint(best_checkpoint)
    /\ pc = "final_reload"
    /\ IF best_checkpoint = 0
       THEN \* torch.load(None) raises
            Crash /\ UNCHANGED <<generator, generator_running_avg>>
       ELSE load_checkpoint(best_checkpoint) /\ pc' = "final_eval"
    /\ UNCHANGED <<args, run, epoch, total_it, i, curveVars, discriminator, optimizer_g,
                   optimizer_d, save_defined, diskVars, searchVars, hist, auxVars>>

FinalEvaluate ==            \* line 952: evaluate_fid(writer, total_it)
    /\ pc = "final_eval"
    /\ hist' = [hist EXCEPT !.final_eval = generator_running_avg]
    /\ pc' = "finish"
    /\ UNCHANGED <<args, run, epoch, total_it, i, curveVars, modelVars, save_defined,
                   diskVars, searchVars, auxVars>>

\* Lines 954-1041: --export_sample renders samples into output/<name>.png;
\* no checkpoint and no training state is touched.
ExportSample ==
    /\ pc = "export"
    /\ pc' = "finish"
    /\ UNCHANGED <<args, run, epoch, total_it, i, curveVars, modelVars, save_defined,
                   diskVars, searchVars, hist, auxVars>>

Done ==                     \* lines 1043-1046: print('Done.')
    /\ pc = "finish"
    /\ pc' = "done"
    /\ UNCHANGED <<args, run, epoch, total_it, i, curveVars, modelVars, save_defined,
                   diskVars, searchVars, hist, auxVars>>

Next ==
    \/ StartRun
    \/ LoadAtStartup
    \/ OpenLog
    \/ LoopHead
    \/ NextBatch
    \/ GFlat
    \/ GOptimizerStep
    \/ GRunningAvg
    \/ GCurve
    \/ DOptimizerStep
    \/ DFakeCurve
    \/ DRealCurve
    \/ IterationEnd
    \/ EpochIncrement
    \/ LrDecay
    \/ DefSaveCheckpoint
    \/ PeriodicSaveLatest
    \/ PeriodicSaveNumbered
    \/ PeriodicEvaluate
    \/ KeyboardInterrupt
    \/ AfterLoop
    \/ EnumerateCheckpoints
    \/ ScanLoad
    \/ ScanEvaluate
    \/ ScanInterrupt
    \/ ScanInterruptUncaught
    \/ FinalReload
    \/ FinalEvaluate
    \/ ExportSample
    \/ Done

Spec == Init /\ [][Next]_vars

\* ---------------------------------------------------------------------------
\* ModelWrapper.forward in mode 'd' (lines 584-623) and divide_pred
\* (lines 493-504), one call at a time.

\* A sample of the batch: generated ("fake") or from the data set ("real").
Samples(src, n) == [j \in 1..n |-> [src |-> src, id |-> j, head |-> 0]]

\* torch.cat((a, b), dim=0)
cat(a, b) == a \o b

\* x[:x.shape[0]//2] and x[x.shape[0]//2:]
FirstHalf(x) == SubSeq(x, 1, Len(x) \div 2)
SecondHalf(x) == SubSeq(x, Len(x) \div 2 + 1, Len(x))

\* (Variant: the two halves are returned in the other order.)
divide_pred_real_first(pred) ==
    IF pred.kind = "none" THEN <<None, None>>
    ELSE IF pred.kind = "list"
    THEN <<List([j \in 1..Len(pred.elems) |->
                   IF pred.elems[j].kind # "none"
                   THEN Tensor(SecondHalf(pred.elems[j].rows)) ELSE None]),
           List([j \in 1..Len(pred.elems) |->
                   IF pred.elems[j].kind # "none"
                   THEN Tensor(FirstHalf(pred.elems[j].rows)) ELSE None])>>
    ELSE <<Tensor(SecondHalf(pred.rows)), Tensor(FirstHalf(pred.rows))>>

\* Lines 493-504: the pair (fake, real).
divide_pred(pred) ==
    IF pred.kind = "none" THEN <<None, None>>
    ELSE IF pred.kind = "list"
    THEN <<List([j \in 1..Len(pred.elems) |->
                   IF pred.elems[j].kind # "none"
                   THEN Tensor(FirstHalf(pred.elems[j].rows)) ELSE None]),
           List([j \in 1..Len(pred.elems) |->
                   IF pred.elems[j].kind # "none"
                   THEN Tensor(SecondHalf(pred.elems[j].rows)) ELSE None])>>
    ELSE <<Tensor(FirstHalf(pred.rows)), Tensor(SecondHalf(pred.rows))>>

\* The output of one discriminator head for a batch: one row per input row,
\* in the order of the input.
HeadOutput(x, h) == Tensor([j \in 1..Len(x) |-> [x[j] EXCEPT !.head = h]])

\* The shapes a discriminator output and its mask can take for the batch x:
\* None, one tensor, or a list over the heads whose elements may be None.
MultiScaleDiscriminator(x) ==
    LET elem(h) == {None, HeadOutput(x, h)}
    IN  {None, HeadOutput(x, 1)}
        \cup {List(<<e>>) : e \in elem(1)}
        \cup {List(<<e1, e2>>) : e1 \in elem(1), e2 \in elem(2)}

\* Lines 586-612: the fake batch is generated and every combined input is
\* concatenated along dim 0.
DBuildInputs ==
    /\ dstep.pc \in {"idle", "returned"}
    /\ \E n \in 1..MaxN, with_mesh \in BOOLEAN, predict_semantics \in BOOLEAN :
         LET X_fake == Samples("fake", n)
             X_real == Samples("real", n)
         IN  dstep' = [NoDStep EXCEPT
                 !.pc = "discriminate", !.N = n,
                 !.X_fake = X_fake, !.X_real = X_real,
                 !.X_combined = cat(X_fake, X_real),
                 !.X_combined_mesh =
                     IF with_mesh THEN Tensor(cat(X_fake, X_real)) ELSE None,
                 !.seg_combined =
                     IF predict_semantics THEN Tensor(cat(X_fake, X_real)) ELSE None]
    /\ UNCHANGED except_dstep

\* Line 617: one discriminator pass on the combined batch.
DDiscriminate ==
    /\ dstep.pc = "discriminate"
    /\ \E d \in MultiScaleDiscriminator(dstep.X_combined) \ {None},
          m \in MultiScaleDiscriminator(dstep.X_combined) :
         dstep' = [dstep EXCEPT !.pc = "divide", !.discriminated = d, !.mask = m]
    /\ UNCHANGED except_dstep

\* Lines 618-619.
DDividePred ==
    /\ dstep.pc = "divide"
    /\ dstep' = [dstep EXCEPT
           !.pc = "loss",
           !.discriminated_fake = divide_pred(dstep.discriminated)[1],
           !.discriminated_real = divide_pred(dstep.discriminated)[2],
           !.mask_fake = divide_pred(dstep.mask)[1],
           !.mask_real = divide_pred(dstep.mask)[2]]
    /\ UNCHANGED except_dstep

\* Lines 620-623: the two losses and the return.
DLosses ==
    /\ dstep.pc = "loss"
    /\ dstep' = [dstep EXCEPT
           !.pc = "returned",
           !.loss_fake = [input |-> dstep.discriminated_fake,
                          target_is_real |-> FALSE, mask |-> dstep.mask_fake],
           !.loss_real = [input |-> dstep.discriminated_real,
                          target_is_real |-> TRUE, mask |-> dstep.mask_real]]
    /\ UNCHANGED except_dstep

\* The trainer of one training process, called in mode 'd'.
InitDivide ==
    /\ Init
    /\ args = ParseArgs(ReferenceSettings, [evaluate |-> FALSE, continue_train |-> FALSE,
                                            which_epoch |-> LATEST,
                                            export_sample |-> FALSE])
    /\ files = [t \in Tags |-> NoFile]

NextDivide ==
    \/ DBuildInputs
    \/ DDiscriminate
    \/ DDividePred
    \/ DLosses

SpecDivide == InitDivide /\ [][NextDivide]_vars

\* ---------------------------------------------------------------------------
\* evaluate_fid, one batch: the inference call with its padding (lines 305-349).

\* A batch tensor whose row j holds the data of sample j.
Batch(n) == Tensor([j \in 1..n |-> j])

\* torch.zeros((padding_bsz, ...)): rows of zeros.
Zeros(n) == [j \in 1..n |-> 0]

\* (Variant: the zero rows are put in front of the batch.)
pad_batch_front(batch, padding_bsz) == Tensor(cat(Zeros(padding_bsz), batch.rows))
\* Lines 322-324.
pad_batch(batch, padding_bsz) == Tensor(cat(batch.rows, Zeros(padding_bsz)))

\* Row j of a possibly absent tensor (-1: the input is None).
RowOrNone(t, j) == IF t = None THEN -1 ELSE t.rows[j]

\* The shadow generator called through the data-parallel wrapper: every output
\* has one row per row of the noise, computed from the same row of each input.
InferenceOutput(noise, c, seg) ==
    Tensor([j \in 1..Len(noise.rows) |->
               [noise |-> noise.rows[j], c |-> RowOrNone(c, j), seg |-> RowOrNone(seg, j)]])

\* x[:original_bsz]
Truncate(t, original_bsz) == Tensor(SubSeq(t.rows, 1, original_bsz))

\* Lines 285-314: the conditioning of the batch and its noise.
EvalBatch ==
    /\ pad.pc \in {"idle", "done"}
    /\ \E n \in 1..MaxBsz, r \in 1..MaxGpus,
          conditional_class \in BOOLEAN, semantics \in {"none", "conditional", "predict"} :
         pad' = [NoPad EXCEPT
                   !.pc = "call", !.N = n, !.R = r,
                   !.predict_semantics = (semantics = "predict"),
                   !.noise = Batch(n),
                   !.c = IF conditional_class THEN Batch(n) ELSE None,
                   !.seg = IF semantics = "none" THEN None ELSE Batch(n)]
    /\ UNCHANGED except_pad

\* What the inference call returns for the inputs given: the texture, the mesh
\* map and the segmentation are tensors, the attention map may be None.
Inference(noise, c, seg, attn) ==
    [pad EXCEPT
       !.calls = Append(@, [noise |-> noise, c |-> c, seg |-> seg]),
       !.pred_tex = InferenceOutput(noise, c, seg),
       !.pred_mesh_map = InferenceOutput(noise, c, seg),
       !.pred_seg = InferenceOutput(noise, c, seg),
       !.attn_map = IF attn THEN InferenceOutput(noise, c, seg) ELSE None]

\* Lines 316-317: the batch is divisible by the number of GPUs.
InferenceDivisible ==
    /\ pad.pc = "call"
    /\ pad.N % pad.R = 0
    /\ \E attn \in BOOLEAN :
         pad' = [Inference(pad.noise, pad.c, pad.seg, attn) EXCEPT !.pc = "done"]
    /\ UNCHANGED except_pad

\* Lines 318-341: the inputs are padded, then one call is made.
InferencePadded ==
    /\ pad.pc = "call"
    /\ pad.N % pad.R # 0
    /\ LET padding_bsz == pad.R - (pad.N % pad.R)
           noise_pad == pad_batch(pad.noise, padding_bsz)
           c_pad == IF pad.c # None THEN pad_batch(pad.c, padding_bsz) ELSE None
           seg_pad == IF pad.seg # None THEN pad_batch(pad.seg, padding_bsz) ELSE None
       IN  \E attn \in BOOLEAN :
             pad' = [Inference(noise_pad, c_pad, seg_pad, attn) EXCEPT !.pc = "unpad"]
    /\ UNCHANGED except_pad

\* Lines 343-349.
Unpad ==
    /\ pad.pc = "unpad"
    /\ pad' = [pad EXCEPT
         !.pc = "done",
         !.pred_tex = Truncate(pad.pred_tex, pad.N),
         !.pred_mesh_map = Truncate(pad.pred_mesh_map, pad.N),
         !.attn_map = IF pad.attn_map # None THEN Truncate(pad.attn_map, pad.N) ELSE None,
         !.pred_seg = IF pad.predict_semantics THEN Truncate(pad.pred_seg, pad.N)
                      ELSE pad.pred_seg]
    /\ UNCHANGED except_pad

InitPad == InitDivide

NextPad ==
    \/ EvalBatch
    \/ InferenceDivisible
    \/ InferencePadded
    \/ Unpad

SpecPad == InitPad /\ [][NextPad]_vars

\* ---------------------------------------------------------------------------
\* The Gaussian truncation trick (lines 305-314 and 990-997).

\* The values one coordinate of torch.randn can take: a symmetric range that
\* exceeds the bounds explored in the reference configuration.
Draws == (0 - 3)..3

\* x.abs()
Abs(x) == IF x < 0 THEN 0 - x ELSE x

\* (Variant: the absolute value is forgotten.)
OutOfBound_signed(x, sigma) == x > sigma
\* Lines 309 and 311: noise.abs() > sigma, for one coordinate.
OutOfBound(x, sigma) == Abs(x) > sigma

\* Line 305: noise = torch.randn(...); sigma = args.truncation_sigma > 0.
Randn ==
    /\ sampler.pc = "idle"
    /\ \E n \in 1..MaxCoords, sigma \in 1..MaxSigma :
         \E x \in [1..n -> Draws] :
            sampler' = [pc |-> "while", sigma |-> sigma, x |-> x, redrawn |-> FALSE]
    /\ UNCHANGED except_sampler

\* Lines 309-312: one round of rejection sampling.
RejectionRound ==
    /\ sampler.pc = "while"
    /\ \E k \in DOMAIN sampler.x : OutOfBound(sampler.x[k], sampler.sigma)
    /\ \E fresh \in [{k \in DOMAIN sampler.x : OutOfBound(sampler.x[k], sampler.sigma)} -> Draws] :
         sampler' = [sampler EXCEPT
                     !.x = [k \in DOMAIN sampler.x |->
                              IF OutOfBound(sampler.x[k], sampler.sigma)
                              THEN fresh[k] ELSE sampler.x[k]],
                     !.redrawn = TRUE]
    /\ UNCHANGED except_sampler

\* Line 309: the loop condition is false.
RejectionExit ==
    /\ sampler.pc = "while"
    /\ ~\E k \in DOMAIN sampler.x : OutOfBound(sampler.x[k], sampler.sigma)
    /\ sampler' = [sampler EXCEPT !.pc = "done"]
    /\ UNCHANGED except_sampler

\* A round whose redrawn coordinates all land within the bound: an event of
\* positive probability at every round, since sigma > 0.
LuckyRound ==
    /\ sampler.pc = "while"
    /\ \E k \in DOMAIN sampler.x : OutOfBound(sampler.x[k], sampler.sigma)
    /\ \E fresh \in [{k \in DOMAIN sampler.x : OutOfBound(sampler.x[k], sampler.sigma)}
                        -> {d \in Draws : ~OutOfBound(d, sampler.sigma)}] :
         sampler' = [sampler EXCEPT
                     !.x = [k \in DOMAIN sampler.x |->
                              IF OutOfBound(sampler.x[k], sampler.sigma)
                              THEN fresh[k] ELSE sampler.x[k]],
                     !.redrawn = TRUE]
    /\ UNCHANGED except_sampler

InitNoise == InitDivide

NextNoise ==
    \/ Randn
    \/ RejectionRound
    \/ RejectionExit

SpecNoise == InitNoise /\ [][NextNoise]_vars

\* The loop runs, and a round that has positive probability infinitely often
\* eventually happens.
FairSpecNoise ==
    /\ SpecNoise
    /\ WF_vars(RejectionRound)
    /\ WF_vars(RejectionExit)
    /\ SF_vars(LuckyRound)

\* ---------------------------------------------------------------------------
\* The conditioning flags: validation at startup (lines 94-95 and 151-161) and
\* the signals extracted from every training batch (lines 780-796) and every
\* evaluation batch (lines 285-301).

Flags == [conditional_class : BOOLEAN, conditional_color : BOOLEAN,
          conditional_text : BOOLEAN, conditional_semantics : BOOLEAN,
          predict_semantics : BOOLEAN, evaluate : BOOLEAN, filter_class : BOOLEAN]

\* (Variant: the assertion is missing.)
SemanticsAssert_missing(f) == TRUE
\* Line 95: assert not (args.conditional_semantics and args.predict_semantics)
SemanticsAssert(f) == ~(f.conditional_semantics /\ f.predict_semantics)

\* Lines 155-157 and 159-161: the two sys.exit(1) checks.
Unsupported(f) == f.conditional_color \/ f.conditional_text
BadFilterClass(f) == f.filter_class /\ (~f.evaluate \/ ~f.conditional_class)

\* Lines 285-292 and 780-787: the class label and the caption of a batch.
PrimaryConditioning(f) ==
    IF f.conditional_class THEN [C |-> "class", caption |-> "None"]
    ELSE IF f.conditional_text THEN [C |-> "None", caption |-> "caption"]
    ELSE [C |-> "None", caption |-> "None"]

\* Lines 294-301 and 789-796: the data key the segmentation is read from.
Segmentation(f) ==
    IF f.conditional_semantics THEN "seg"
    ELSE IF f.predict_semantics THEN "seg_inv_rend"
    ELSE "None"

\* Line 94: args = parser.parse_args()
ParseFlags ==
    /\ cond.pc = "start"
    /\ \E f \in Flags : cond' = [NoCond EXCEPT !.pc = "assert", !.flags = f]
    /\ UNCHANGED except_cond

\* Line 95.
CheckSemanticsAssert ==
    /\ cond.pc = "assert"
    /\ cond' = [cond EXCEPT !.pc = IF SemanticsAssert(cond.flags)
                                   THEN "checks" ELSE "AssertionError"]
    /\ UNCHANGED except_cond

\* Lines 155-161.
SafetyChecks ==
    /\ cond.pc = "checks"
    /\ cond' = [cond EXCEPT !.pc = IF Unsupported(cond.flags) \/ BadFilterClass(cond.flags)
                                   THEN "exit" ELSE "validated"]
    /\ UNCHANGED except_cond

\* Lines 776-796: a batch of the training loop (not in evaluate mode, where
\* args.epochs is -1).
TrainBatch ==
    /\ cond.pc \in {"validated", "batch"}
    /\ ~cond.flags.evaluate
    /\ cond.batches < MaxBatches
    /\ cond' = [cond EXCEPT !.pc = "batch", !.loop = "train",
                            !.C = PrimaryConditioning(cond.flags).C,
                            !.caption = PrimaryConditioning(cond.flags).caption,
                            !.seg = Segmentation(cond.flags),
                            !.batches = @ + 1]
    /\ UNCHANGED except_cond

\* Lines 278-301: a batch of evaluate_fid.
EvalBatchConditioning ==
    /\ cond.pc \in {"validated", "batch"}
    /\ cond.batches < MaxBatches
    /\ cond' = [cond EXCEPT !.pc = "batch", !.loop = "eval",
                            !.C = PrimaryConditioning(cond.flags).C,
                            !.caption = PrimaryConditioning(cond.flags).caption,
                            !.seg = Segmentation(cond.flags),
                            !.batches = @ + 1]
    /\ UNCHANGED except_cond

InitCond == InitDivide

NextCond ==
    \/ ParseFlags
    \/ CheckSemanticsAssert
    \/ SafetyChecks
    \/ TrainBatch
    \/ EvalBatchConditioning

SpecCond == InitCond /\ [][NextCond]_vars

\* ---------------------------------------------------------------------------
\* update_generator_running_avg (lines 508-524), entry by entry of the state
\* dict.  Entry values are numbers, or the term avg*alpha + cur*(1 - alpha) for
\* an alpha that is neither 0 nor 1 (alpha is a fraction raised to a power).

Num(n) == [op |-> "num", n |-> n, avg |-> <<>>, cur |-> <<>>,
           alpha |-> [base |-> <<0, 1>>, power |-> 1]]
Mix(avg, cur, alpha) == [op |-> "mix", n |-> 0, avg |-> <<avg>>, cur |-> <<cur>>,
                         alpha |-> alpha]

\* The values of --g_running_average_alpha explored (default 0.999) and the
\* epochs at which the update is called.
Alphas == {<<0, 1>>, <<1, 2>>, <<999, 1000>>, <<1, 1>>}
UpdateEpochs == {0, 9, 10, 99, 100, 101}

\* (Variant: the first threshold is inclusive.)
AlphaAt_inclusive(base, e) ==
    IF e <= 10 THEN [base |-> base, power |-> 100]
    ELSE IF e < 100 THEN [base |-> base, power |-> 10]
    ELSE [base |-> base, power |-> 1]
\* Lines 513-518: math.pow(args.g_running_average_alpha, 100 | 10), or alpha.
AlphaAt(base, e) ==
    IF e < 10 THEN [base |-> base, power |-> 100]
    ELSE IF e < 100 THEN [base |-> base, power |-> 10]
    ELSE [base |-> base, power |-> 1]

\* Line 522: param.mul_(alpha).add_(g, alpha=1-alpha).  0**k = 0 and 1**k = 1.
MulAdd(param, g, alpha) ==
    IF alpha.base[1] = 0 THEN g
    ELSE IF alpha.base[1] = alpha.base[2] THEN param
    ELSE Mix(param, g, alpha)

\* Lines 519-524: the new state dict of the shadow generator.
RunningAvgStateDict(shadow, live, floating, base, e) ==
    [k \in DOMAIN shadow |->
        IF floating[k] THEN MulAdd(shadow[k], live[k], AlphaAt(base, e)) ELSE live[k]]

\* Lines 530-532: the generator and its shadow copy are constructed; the
\* entries are floating-point parameters or integer buffers.
RavgConstruct ==
    /\ ravg.pc = "idle"
    /\ \E base \in Alphas, floating \in [1..2 -> BOOLEAN], w \in [1..2 -> 1..2] :
         ravg' = [NoRavg EXCEPT
                    !.pc = "training", !.alpha = base, !.floating = floating,
                    !.live = [k \in 1..2 |-> Num(w[k])],
                    !.shadow = [k \in 1..2 |-> Num(w[k])],
                    !.before = [k \in 1..2 |-> Num(w[k])]]
    /\ UNCHANGED except_ravg

\* Line 820: optimizer_g.step() gives the live generator new values.
RavgOptimizerStep ==
    /\ ravg.pc = "training"
    /\ ravg.updates < MaxUpdates
    /\ \E e \in UpdateEpochs, w \in [1..2 -> 3..4] :
         /\ e >= ravg.epoch
         /\ ravg' = [ravg EXCEPT !.pc = "stepped", !.epoch = e,
                                 !.live = [k \in 1..2 |-> Num(w[k] + 2 * ravg.updates)]]
    /\ UNCHANGED except_ravg

\* Line 821: update_generator_running_avg(epoch).
RavgUpdate ==
    /\ ravg.pc = "stepped"
    /\ ravg' = [ravg EXCEPT
                  !.pc = "training",
                  !.before = ravg.shadow,
                  !.shadow = RunningAvgStateDict(ravg.shadow, ravg.live, ravg.floating,
                                                 ravg.alpha, ravg.epoch),
                  !.updates = @ + 1]
    /\ UNCHANGED except_ravg

InitRavg == InitDivide

NextRavg ==
    \/ RavgConstruct
    \/ RavgOptimizerStep
    \/ RavgUpdate

SpecRavg == InitRavg /\ [][NextRavg]_vars

\* ---------------------------------------------------------------------------
\* The precomputed FID statistics (lines 226-232).  A matrix is a function
\* from <<row, column>> to its entry.

Entries == {-1, 0, 1}
Matrices(n) == [(1..n) \X (1..n) -> Entries]

\* M.T
Transpose(M, n) == [ij \in (1..n) \X (1..n) |-> M[<<ij[2], ij[1]>>]]

\* (Variant: the diagonal is kept as well, as np.triu(M) does.)
Triu1_with_diagonal(M, n) ==
    [ij \in (1..n) \X (1..n) |-> IF ij[2] >= ij[1] THEN M[ij] ELSE 0]
\* np.triu(M, 1): the entries strictly above the diagonal, zero elsewhere.
Triu1(M, n) ==
    [ij \in (1..n) \X (1..n) |-> IF ij[2] > ij[1] THEN M[ij] ELSE 0]

\* A + B
MatAdd(A, B, n) == [ij \in (1..n) \X (1..n) |-> A[ij] + B[ij]]

\* Line 226: np.load of the statistics file.
LoadStats ==
    /\ stats.pc = "start"
    /\ \E n \in 1..MaxDim : \E S \in Matrices(n) :
         stats' = [NoStats EXCEPT !.pc = "loaded", !.n = n, !.stats_s = S]
    /\ UNCHANGED except_stats

\* Line 228: s_real_val = stats['stats_s'] + np.triu(stats['stats_s'].T, 1)
Symmetrize ==
    /\ stats.pc = "loaded"
    /\ stats' = [stats EXCEPT
           !.pc = "ready",
           !.s_real_val = MatAdd(stats.stats_s,
                                 Triu1(Transpose(stats.stats_s, stats.n), stats.n),
                                 stats.n)]
    /\ UNCHANGED except_stats

\* Lines 436, 441, 445: calculate_frechet_distance(..., m_real_val, s_real_val)
FrechetDistance ==
    /\ stats.pc \in {"ready", "used"}
    /\ stats' = [stats EXCEPT !.pc = "used", !.used = stats.s_real_val]
    /\ UNCHANGED except_stats

InitStats == InitDivide

NextStats ==
    \/ LoadStats
    \/ Symmetrize
    \/ FrechetDistance

SpecStats == InitStats /\ [][NextStats]_vars

\* ---------------------------------------------------------------------------
\* evaluate_fid (lines 234-489): the passes over the evaluation data set, the
\* accumulated Inception embeddings and the subsample the FID is computed on.

\* len(eval_ds), n_images_val (line 229) and args.batch_size (line 203).
EvalDsSizes == 1..MaxEvalDs
ImageCounts == 1..MaxImages
EvalBatchSizes == 1..2

\* Line 276: num_passes = (n_images_val + len(eval_ds) - 1) // len(eval_ds)
\* (Variant: the division rounds down.)
num_passes_floor(n, L) == n \div L
num_passes(n, L) == (n + L - 1) \div L

\* The embedding of the sample with data set index idx computed in pass p.
Embedding(p, idx, variant) == [pass |-> p, idx |-> idx, variant |-> variant]

\* The embeddings one batch adds: forward_inception_batch on data set items
\* offset .. offset + b - 1 (the loader does not shuffle and keeps the last,
\* smaller batch).
BatchEmbeddings(p, offset, b, variant) == [k \in 1..b |-> Embedding(p, offset + k - 1, variant)]

\* np.random.choice(total, size=n, replace=False): n pairwise distinct
\* positions (ValueError when n > total).
Choice(total, n) == {v \in [1..n -> 1..total] : \A a, b \in 1..n : a # b => v[a] # v[b]}

\* arr[val_indices]
Take(arr, val_indices) == [k \in 1..Len(val_indices) |-> arr[val_indices[k]]]

FidStart ==         \* lines 234-276
    /\ fidrun.pc \in {"idle", "done"}
    /\ \E L \in EvalDsSizes, n \in ImageCounts, b \in EvalBatchSizes, hp \in BOOLEAN :
         fidrun' = [NoFidRun EXCEPT !.pc = "loop", !.L = L, !.n = n, !.batch_size = b,
                                    !.has_pseudogt = hp, !.num_passes = num_passes(n, L)]
    /\ UNCHANGED except_fidrun

\* Lines 278-390: one batch of RepeatIterator(eval_loader, num_passes); the
\* iterator starts the loader again when a pass is exhausted.
FidBatch ==
    /\ fidrun.pc = "loop"
    /\ fidrun.pass < fidrun.num_passes
    /\ LET b == Min(fidrun.batch_size, fidrun.L - fidrun.offset)
           emb(variant) == BatchEmbeddings(fidrun.pass, fidrun.offset, b, variant)
           last == fidrun.offset + b = fidrun.L
       IN  fidrun' = [fidrun EXCEPT
               !.emb_arr_fake_combined = @ \o emb("combined"),
               !.emb_arr_fake_texture_only =
                   IF fidrun.has_pseudogt THEN @ \o emb("texture_only") ELSE @,
               !.emb_arr_fake_mesh_only =
                   IF fidrun.has_pseudogt THEN @ \o emb("mesh_only") ELSE @,
               !.offset = IF last THEN 0 ELSE @ + b,
               !.pass = IF last THEN @ + 1 ELSE @]
    /\ UNCHANGED except_fidrun

\* Lines 392-395: np.concatenate (ValueError on an empty list).
FidConcatenate ==
    /\ fidrun.pc = "loop"
    /\ fidrun.pass = fidrun.num_passes
    /\ fidrun' = [fidrun EXCEPT
           !.pc = IF Len(fidrun.emb_arr_fake_combined) = 0 THEN "error" ELSE "subsample"]
    /\ UNCHANGED except_fidrun

\* Lines 429-445: val_indices is drawn once and indexes the three arrays.
FidSubsample ==
    /\ fidrun.pc = "subsample"
    /\ IF fidrun.n > Len(fidrun.emb_arr_fake_combined)
       THEN fidrun' = [fidrun EXCEPT !.pc = "error"]
       ELSE \E v \in Choice(Len(fidrun.emb_arr_fake_combined), fidrun.n) :
              fidrun' = [fidrun EXCEPT
                  !.pc = "done",
                  !.val_indices = v,
                  !.used_combined = Take(fidrun.emb_arr_fake_combined, v),
                  !.used_texture_only =
                      IF fidrun.has_pseudogt
                      THEN Take(fidrun.emb_arr_fake_texture_only, v) ELSE <<>>,
                  !.used_mesh_only =
                      IF fidrun.has_pseudogt
                      THEN Take(fidrun.emb_arr_fake_mesh_only, v) ELSE <<>>]
    /\ UNCHANGED except_fidrun

InitFid == InitDivide

NextFid ==
    \/ FidStart
    \/ FidBatch
    \/ FidConcatenate
    \/ FidSubsample

SpecFid == InitFid /\ [][NextFid]_vars

\* ---------------------------------------------------------------------------
\* The two random number generators evaluate_fid draws from: torch's (noise,
\* lines 305-312) and numpy's (indices_to_render, line 251; val_indices,
\* line 433).  A generator state is the seed it was last set from and the
\* number of draws since; what a draw returns is a function of that state.  The
\* seed is <<s>> after a call that sets it to s and <<>> in a fresh process.

FixedSeed == 1234
\* The state a process starts with (seeded from the operating system).
OsSeeded == [seed |-> <<>>, draws |-> 0]
\* torch.manual_seed(s), np.random.seed(s)
Seeded(s) == [seed |-> <<s>>, draws |-> 0]
\* The state after one draw.
Advance(g) == [g EXCEPT !.draws = @ + 1]

\* Lines 270 and 431: `if args.evaluate:` guards both reseeds.
\* (Variant: the generators are reseeded in every mode.)
Reseeds_always(evaluate) == TRUE
Reseeds(evaluate) == evaluate

RngStartProcess ==      \* the process starts in training or in evaluate mode
    /\ rng.pc = "idle"
    /\ \E ev \in BOOLEAN, fc \in BOOLEAN, nb \in 1..MaxBatches :
         rng' = [NoRng EXCEPT !.pc = "between", !.evaluate = ev, !.filter_class = fc,
                              !.batches = nb, !.torch = OsSeeded, !.numpy = OsSeeded]
    /\ UNCHANGED except_rng

\* Line 556: a training iteration draws its noise from torch's generator.
RngTrainingIteration ==
    /\ rng.pc = "between"
    /\ ~rng.evaluate
    /\ rng.torch.draws < MaxTrainDraws + Len(rng.calls) * MaxBatches
    /\ rng' = [rng EXCEPT !.torch = Advance(@)]
    /\ UNCHANGED except_rng

\* Lines 244-254.  Training passes data['idx'] (line 891); the calls of
\* evaluate mode pass no indices (lines 936, 952), and then 16 indices are
\* drawn from numpy's generator unless a class filter is set.
RngEvaluateEnter ==
    /\ rng.pc = "between"
    /\ Len(rng.calls) < MaxCalls
    /\ LET visualization_indices == ~rng.evaluate
       IN  rng' = [rng EXCEPT
               !.pc = "seed",
               !.numpy = IF ~visualization_indices /\ ~rng.filter_class
                         THEN Advance(@) ELSE @]
    /\ UNCHANGED except_rng

RngManualSeed ==        \* lines 270-274
    /\ rng.pc = "seed"
    /\ rng' = [rng EXCEPT
           !.pc = "loop",
           !.torch = IF Reseeds(rng.evaluate) THEN Seeded(FixedSeed) ELSE @]
    /\ UNCHANGED except_rng

RngNoise ==             \* lines 305-312, once per batch
    /\ rng.pc = "loop"
    /\ rng.b < rng.batches
    /\ rng' = [rng EXCEPT !.noise = Append(@, rng.torch), !.torch = Advance(@), !.b = @ + 1]
    /\ UNCHANGED except_rng

RngSubsample ==         \* lines 429-433, then the call returns
    /\ rng.pc = "loop"
    /\ rng.b = rng.batches
    /\ LET at_draw == IF Reseeds(rng.evaluate) THEN Seeded(FixedSeed) ELSE rng.numpy
       IN  rng' = [rng EXCEPT
               !.pc = "between",
               !.numpy = Advance(at_draw),
               !.b = 0,
               !.noise = <<>>,
               !.calls = Append(@, [noise |-> rng.noise, val_indices |-> at_draw])]
    /\ UNCHANGED except_rng

InitRng == InitDivide

NextRng ==
    \/ RngStartProcess
    \/ RngTrainingIteration
    \/ RngEvaluateEnter
    \/ RngManualSeed
    \/ RngNoise
    \/ RngSubsample

SpecRng == InitRng /\ [][NextRng]_vars

\* ---------------------------------------------------------------------------
\* The visualization samples of evaluate_fid (lines 244-254, 375-390, 396-427)
\* when the caller passes the indices of the last training batch (line 891).
\* Data set indices are 0 .. L-1; positions in arrays are counted from 1.

\* The indices of a training batch.  With --dataset all the train loader
\* draws through WeightedRandomSampler (line 184), which samples with
\* replacement; otherwise the loader shuffles and the indices are distinct.
TrainBatchIndices(balanced, L) ==
    LET lists == UNION {[1..len -> 0..(L - 1)] : len \in 1..MaxRequested}
    IN  IF balanced THEN lists
        ELSE {v \in lists : \A a, b \in DOMAIN v : a # b => v[a] # v[b]}

\* np.argsort(a): a permutation that sorts a; the order among equal elements
\* is not specified for the default sort.
Argsort(a) ==
    {p \in [DOMAIN a -> DOMAIN a] :
        /\ \A x, y \in DOMAIN a : x # y => p[x] # p[y]
        /\ \A x, y \in DOMAIN a : x < y => a[p[x]] <= a[p[y]]}

\* np.isin(idx, indices_to_render)
IsIn(idx, indices) == \E k \in DOMAIN indices : indices[k] = idx

\* out_combined[mask] for the batch of items offset .. offset + b - 1 of pass
\* p: the rows of the batch whose index is requested, in batch order.
RECURSIVE MaskedRows(_, _, _, _)
MaskedRows(p, offset, b, indices) ==
    IF b = 0 THEN <<>>
    ELSE (IF IsIn(offset, indices) THEN <<[pass |-> p, idx |-> offset]>> ELSE <<>>)
         \o MaskedRows(p, offset + 1, b - 1, indices)

GridStart ==        \* lines 244-247 and 276
    /\ grid.pc \in {"idle", "done", "error"}
    /\ \E L \in EvalDsSizes, b \in EvalBatchSizes, n \in ImageCounts, balanced \in BOOLEAN :
         \E req \in TrainBatchIndices(balanced, L) :
           \E first \in Argsort(req) :
             \E second \in Argsort(first) :
               grid' = [NoGrid EXCEPT !.pc = "loop", !.L = L, !.batch_size = b,
                                      !.num_passes = num_passes(n, L),
                                      !.indices_to_render = req,
                                      !.shuffle_idx = second]
    /\ UNCHANGED except_grid

GridBatch ==        \* lines 375-379, one batch of the evaluation loader
    /\ grid.pc = "loop"
    /\ grid.pass < grid.num_passes
    /\ LET b == Min(grid.batch_size, grid.L - grid.offset)
           last == grid.offset + b = grid.L
       IN  grid' = [grid EXCEPT
               !.sample_fake = @ \o MaskedRows(grid.pass, grid.offset, b,
                                               grid.indices_to_render),
               !.offset = IF last THEN 0 ELSE @ + b,
               !.pass = IF last THEN @ + 1 ELSE @]
    /\ UNCHANGED except_grid

\* Lines 396 and 412-413: torch.cat, then sample_fake = sample_fake[shuffle_idx]
\* (IndexError when an entry of shuffle_idx is not a row of sample_fake).
GridReorder ==
    /\ grid.pc = "loop"
    /\ grid.pass = grid.num_passes
    /\ IF \E k \in DOMAIN grid.shuffle_idx : grid.shuffle_idx[k] > Len(grid.sample_fake)
       THEN grid' = [grid EXCEPT !.pc = "error"]
       ELSE grid' = [grid EXCEPT
                !.pc = "done",
                !.sample_fake = [k \in DOMAIN grid.shuffle_idx |->
                                    grid.sample_fake[grid.shuffle_idx[k]]]]
    /\ UNCHANGED except_grid

InitGrid == InitDivide

NextGrid ==
    \/ GridStart
    \/ GridBatch
    \/ GridReorder

SpecGrid == InitGrid /\ [][NextGrid]_vars

\* ---------------------------------------------------------------------------
\* A fresh training run whose length is given with --iters: the derivation of
\* the epoch count and of the intervals (lines 127-134) and the end-of-epoch
\* triggers that use them (lines 886-891).

\* Line 132: the number of evaluations a run is divided into.
EvaluationsPerRun == 30

\* int(a / b) for a >= 0 and b > 0.
IntDiv(a, b) == a \div b

ItersParse ==       \* --iters, len(train_ds), --batch_size
    /\ itersrun.pc = "idle"
    /\ \E it \in 1..MaxIters, n \in 1..MaxTrainDs, b \in 1..MaxTrainDs :
         itersrun' = [NoItersRun EXCEPT !.pc = "derive", !.iters = it,
                                       !.len_train_ds = n, !.batch_size = b]
    /\ UNCHANGED except_itersrun

\* Lines 127-134.  int(args.iters / iters_per_epoch) raises ZeroDivisionError
\* when the data set is smaller than one batch.
ItersDerive ==
    /\ itersrun.pc = "derive"
    /\ LET iters_per_epoch == IntDiv(itersrun.len_train_ds, itersrun.batch_size)
       IN  IF iters_per_epoch = 0
           THEN itersrun' = [itersrun EXCEPT !.pc = "startup_error"]
           ELSE LET epochs == IntDiv(itersrun.iters, iters_per_epoch)
                    evaluate_freq == IntDiv(epochs, EvaluationsPerRun)
                IN  itersrun' = [itersrun EXCEPT !.pc = "while", !.epochs = epochs,
                                                 !.evaluate_freq = evaluate_freq,
                                                 !.checkpoint_freq = evaluate_freq]
    /\ UNCHANGED except_itersrun

\* Lines 773-852: one epoch of the loop, or the loop ends.  After the loop,
\* line 897 calls save_checkpoint, which is bound only once an epoch has run.
ItersEpoch ==
    /\ itersrun.pc = "while"
    /\ IF itersrun.epoch < itersrun.epochs
       THEN itersrun' = [itersrun EXCEPT !.pc = "triggers", !.epoch = @ + 1]
       ELSE itersrun' = [itersrun EXCEPT !.pc = IF itersrun.epoch = 0 THEN "error" ELSE "done"]
    /\ UNCHANGED except_itersrun

\* Lines 886-891: epoch % args.save_freq, epoch % args.checkpoint_freq and
\* epoch % args.evaluate_freq; the modulo by 0 raises ZeroDivisionError, which
\* the handler at line 893 does not catch.
ItersTriggers ==
    /\ itersrun.pc = "triggers"
    /\ itersrun' = [itersrun EXCEPT
           !.pc = IF itersrun.checkpoint_freq = 0 \/ itersrun.evaluate_freq = 0
                  THEN "error" ELSE "while"]
    /\ UNCHANGED except_itersrun

InitIters == InitDivide

NextIters ==
    \/ ItersParse
    \/ ItersDerive
    \/ ItersEpoch
    \/ ItersTriggers

SpecIters == InitIters /\ [][NextIters]_vars

\* ====================================================================
\* Properties
\* ====================================================================
TrainingRun == run >= 1 /\ ~args.evaluate
GeneratorStepPcs == {"g_flat", "g_opt", "g_avg", "g_curve"}
DiscriminatorStepPcs == {"d_opt", "d_fake", "d_real"}

\* C1: with k = d_steps_per_g, the step selected at global iteration t is a
\* generator step iff t mod (k+1) = 0 and a discriminator step otherwise,
\* exactly one of the two per iteration; the code that runs is that of the
\* selected step; the counter grows by exactly 1 from one iteration of a run to
\* the next (also across epoch boundaries) and starts, in a resumed run, at the
\* checkpoint's iteration; every window of k+1 consecutive iterations holds
\* exactly one generator step.
C1_ModuloSchedule ==
    LET k == args.d_steps_per_g
        log == hist.steps
        n == Len(log)
    IN  /\ \A j \in 1..n :
              /\ log[j].kind \in {"g", "d"}
              /\ (log[j].kind = "g") <=> (log[j].t % (k + 1) = 0)
        /\ \A j \in 1..(n - 1) : log[j + 1].t = log[j].t + 1
        /\ n > 0 => log[1].t = (IF hist.loaded.has_epoch THEN hist.loaded.iteration ELSE 0)
        /\ \A j \in 1..(n - k) :
              Cardinality({m \in j..(j + k) : log[m].kind = "g"}) = 1
        /\ pc \in GeneratorStepPcs \cup DiscriminatorStepPcs \cup {"it_inc"} =>
              /\ n > 0
              /\ log[n].t = total_it
              /\ pc \in GeneratorStepPcs => log[n].kind = "g"
              /\ pc \in DiscriminatorStepPcs => log[n].kind = "d"

\* C1 witness: a run resumed from a checkpoint written after 2 iterations, with
\* k = 2, has run a discriminator step at iteration 2 and selected a generator
\* step at iteration 3, in the epoch after the one the checkpoint closed.
C1_Witness ==
    /\ args.continue_train
    /\ hist.loaded.has_epoch
    /\ hist.loaded.iteration = 2
    /\ args.d_steps_per_g = 2
    /\ Len(hist.steps) >= 2
    /\ hist.steps[1].kind = "d"
    /\ hist.steps[2].kind = "g"
    /\ hist.steps[1].t = 2 /\ hist.steps[1].epoch = 1
    /\ hist.steps[2].t = 3 /\ hist.steps[2].epoch = 1
    /\ pc = "g_opt"

\* C2 (as claimed): a training run whose loop was interrupted writes the
\* 'latest' checkpoint and reaches Done; it never ends in an uncaught error.
C2_InterruptedRunSavesAndFinishes ==
    (TrainingRun /\ hist.interrupted) =>
        /\ pc # "crashed"
        /\ pc \in {"finish", "done"} => files[LATEST] = OutDict

\* A step of the schedule is wholly reflected in a checkpoint record.
WhollyReflected(f) ==
    /\ f.optimizer_g.steps = Len(f.g_curve) - 1
    /\ f.generator.steps = f.optimizer_g.steps
    /\ f.generator_running_avg.avg = f.optimizer_g.steps
    /\ Len(f.flat_curve) = Len(f.g_curve)
    /\ f.optimizer_d.steps = Len(f.d_fake_curve) - 1
    /\ f.discriminator.steps = f.optimizer_d.steps
    /\ Len(f.d_real_curve) = Len(f.d_fake_curve)
    /\ f.iteration = f.optimizer_g.steps + f.optimizer_d.steps

\* C3 (as claimed): in the checkpoint written after an interrupt of a run that
\* was started from scratch, every training step is wholly reflected or not at
\* all.
C3_InterruptNeverMidStep ==
    (TrainingRun /\ ~args.continue_train /\ hist.interrupted /\ pc = "finish") =>
        WhollyReflected(files[LATEST])

\* The startup load has just completed (no step has been selected yet).
JustLoaded == pc = "loop_head" /\ hist.loaded.present /\ Len(hist.steps) = 0
LoadTag == IF args.which_epoch = BEST THEN LATEST ELSE args.which_epoch

\* C4: loading, in resume mode, a checkpoint written by save_checkpoint
\* reproduces the epoch, the iteration counter, the four curves, the generator,
\* shadow-generator and discriminator weights and both optimizer states that
\* were live when it was written.
C4_ResumeRoundTrip ==
    (JustLoaded /\ args.continue_train /\ ~args.evaluate /\ hist.loaded.has_epoch) =>
        LiveState = saved[LoadTag]

\* C4 witness: a resumed run has just loaded a checkpoint of epoch >= 1 whose
\* curves, weights, optimizer steps and decayed learning rate are not the
\* construction values.
C4_Witness ==
    /\ JustLoaded /\ args.continue_train /\ ~args.evaluate /\ hist.loaded.has_epoch
    /\ epoch >= 1
    /\ total_it >= 2
    /\ Len(g_curve) >= 2 /\ Len(d_fake_curve) >= 2 /\ Len(d_real_curve) >= 2
    /\ Len(flat_curve) >= 2
    /\ d_fake_curve # d_real_curve
    /\ generator.steps >= 1 /\ generator_running_avg.avg >= 1 /\ discriminator.steps >= 1
    /\ optimizer_g.lr = <<lr_g, 2>> /\ optimizer_d.lr = <<lr_d, 2>>

\* C5 (as claimed): after the load of a checkpoint without the epoch/iteration
\* fields no generator or discriminator step is selected in that run, whatever
\* the mode flags.
C5_WeightsOnlyDisablesTraining ==
    (run >= 1 /\ hist.loaded.present /\ ~hist.loaded.has_epoch) => Len(hist.steps) = 0

\* C6 (as claimed): a resume load restores weights, optimizer states, counters
\* and curves; an evaluate-only load restores the generator, shadow-generator
\* and discriminator weights and leaves the counters and curves as constructed
\* (stated for the files save_checkpoint writes).
C6_EvaluateOnlyLeavesCounters ==
    (JustLoaded /\ hist.loaded.has_epoch) =>
        /\ generator_running_avg = hist.loaded.generator_running_avg
        /\ args.continue_train =>
              LiveState = <<hist.loaded.epoch, hist.loaded.iteration, hist.loaded.g_curve,
                            hist.loaded.d_fake_curve, hist.loaded.d_real_curve,
                            hist.loaded.flat_curve, hist.loaded.generator,
                            hist.loaded.generator_running_avg, hist.loaded.discriminator,
                            hist.loaded.optimizer_g, hist.loaded.optimizer_d>>
        /\ ~args.continue_train =>
              /\ generator = hist.loaded.generator
              /\ discriminator = hist.loaded.discriminator
              /\ epoch = 0 /\ total_it = 0
              /\ g_curve = <<0>> /\ d_fake_curve = <<0>>
              /\ d_real_curve = <<0>> /\ flat_curve = <<0>>

\* C6 (amended): after the startup load, the shadow generator is the file's;
\* the generator, the epoch and iteration counters and the four curves are the
\* file's when the file holds the epoch field (in resume and in evaluate-only
\* mode alike) and are left as constructed otherwise; in resume mode the
\* discriminator and both optimizer states are the file's; in evaluate-only
\* mode there is no discriminator and no optimizer to restore, and training is
\* disabled (args.epochs = -1).
C6_LoadModes ==
    JustLoaded =>
        /\ generator_running_avg = hist.loaded.generator_running_avg
        /\ hist.loaded.has_epoch =>
              /\ epoch = hist.loaded.epoch /\ total_it = hist.loaded.iteration
              /\ g_curve = hist.loaded.g_curve /\ d_fake_curve = hist.loaded.d_fake_curve
              /\ d_real_curve = hist.loaded.d_real_curve
              /\ flat_curve = hist.loaded.flat_curve
              /\ generator = hist.loaded.generator
        /\ ~hist.loaded.has_epoch =>
              /\ epoch = 0 /\ total_it = 0
              /\ g_curve = <<0>> /\ d_fake_curve = <<0>>
              /\ d_real_curve = <<0>> /\ flat_curve = <<0>>
              /\ generator = FreshWeights(run)
        /\ args.continue_train =>
              /\ discriminator = hist.loaded.discriminator
              /\ optimizer_g = hist.loaded.optimizer_g
              /\ optimizer_d = hist.loaded.optimizer_d
              /\ args.epochs = args.cli_epochs
        /\ ~args.continue_train =>
              /\ args.evaluate
              /\ discriminator = NoWeights
              /\ optimizer_g = NoOptimizer /\ optimizer_d = NoOptimizer
              /\ args.epochs = -1

\* C6 witness: an evaluate-only load of a checkpoint of epoch >= 1 written by a
\* training run: counters and curves are the file's, there is no discriminator.
C6_Witness ==
    /\ JustLoaded /\ args.evaluate /\ ~args.continue_train
    /\ hist.loaded.has_epoch
    /\ epoch >= 1 /\ total_it >= 2 /\ Len(g_curve) >= 2
    /\ hist.loaded.discriminator.steps >= 1
    /\ discriminator = NoWeights

\* The epoch-numbered checkpoints in the directory.
Candidates == {t \in 1..MaxEpochs : files[t].present}
SearchCompleted ==
    pc = "finish" /\ args.evaluate /\ args.which_epoch = BEST /\ hist.search_interrupted = "no"

\* C7: when the best-checkpoint search runs to completion, every epoch-numbered
\* checkpoint has been evaluated exactly once, in strictly descending epoch
\* order, in fast mode and on its own weights, and the final full evaluation
\* runs on the weights of the highest-epoch candidate among those with the
\* minimum fast-mode FID, whichever candidate was loaded last.
C7_BestSearch ==
    SearchCompleted =>
        LET sc == hist.scanned
            n == Len(sc)
            best == CHOOSE j \in 1..n :
                       /\ \A m \in 1..n : sc[j].fid <= sc[m].fid
                       /\ \A m \in 1..n : sc[m].fid = sc[j].fid => sc[m].epoch <= sc[j].epoch
        IN  /\ n = Cardinality(Candidates) /\ n >= 1
            /\ {sc[j].epoch : j \in 1..n} = Candidates
            /\ \A j \in 1..(n - 1) : sc[j].epoch > sc[j + 1].epoch
            /\ \A j \in 1..n :
                  sc[j].fast /\ sc[j].weights = files[sc[j].epoch].generator_running_avg
            /\ hist.final_eval = files[sc[best].epoch].generator_running_avg
            /\ generator_running_avg = files[sc[best].epoch].generator_running_avg
            /\ generator = files[sc[best].epoch].generator

\* C7 witness: two candidates tie for the minimum; the final evaluation ran on
\* the first one scanned (the higher epoch), not on the one loaded last.
C7_Witness ==
    /\ SearchCompleted
    /\ Len(hist.scanned) = 2
    /\ hist.scanned[1].fid = hist.scanned[2].fid
    /\ hist.scanned[1].weights # hist.scanned[2].weights
    /\ hist.final_eval = hist.scanned[1].weights

\* C8 (as claimed): an interrupt during the evaluation of a candidate stops the
\* scan without an uncaught error, and the run goes on to the final evaluation
\* with the best checkpoint found so far.
C8_SearchInterruptSafe ==
    hist.search_interrupted = "evaluating" =>
        /\ pc # "crashed"
        /\ pc = "finish" => hist.final_eval = files[best_checkpoint].generator_running_avg

\* Equality of two fractions with positive denominators.
FracEq(a, b) == a[1] * b[2] = b[1] * a[2]

\* A training run started from scratch and not interrupted.
FreshTraining == TrainingRun /\ ~args.continue_train /\ ~hist.interrupted /\ pc # "load"

\* clamp(1 - (e - D)/(E - D), 0, 1) for D < E, as a fraction.
ClampedFactor(e, D, E) ==
    IF E - e < 0 THEN <<0, 1>> ELSE IF E - e > E - D THEN <<1, 1>> ELSE <<E - e, E - D>>

\* C9 (as claimed): whenever the learning rates are up to date with the epoch
\* counter, each is base_lr * clamp(1 - (epoch - D)/(E - D), 0, 1); in
\* particular it is 0 at every epoch >= E.
C9_LrIsClampedFormula ==
    (FreshTraining /\ pc # "lr_decay" /\ args.lr_decay_after < args.epochs) =>
        LET f == ClampedFactor(epoch, args.lr_decay_after, args.epochs)
        IN  /\ FracEq(optimizer_g.lr, <<lr_g * f[1], f[2]>>)
            /\ FracEq(optimizer_d.lr, <<lr_d * f[1], f[2]>>)

\* The factor in force at epoch e of a run started from scratch: 1 before the
\* decay starts, (E - e)/(E - D) for D <= e < E, and at e = E the factor set at
\* epoch E - 1.
FactorInForce(e, D, E) ==
    IF e < D \/ D >= E THEN <<1, 1>> ELSE IF e < E THEN <<E - e, E - D>> ELSE <<1, E - D>>

\* C9 (amended): the learning rates change only in the end-of-epoch
\* recomputation (once per epoch, never per iteration); that recomputation sets
\* both to base_lr * (1 - (epoch - D)/(E - D)), with one factor, when
\* D <= epoch < E and leaves them unchanged otherwise; so in a run started from
\* scratch the rate at epoch e is base_lr for e < D, base_lr * (E - e)/(E - D)
\* for D <= e < E (half the base rate at epoch 125 for D = 100, E = 150), and at
\* e = E it keeps the last value base_lr/(E - D) and is not 0.
C9_LrSchedule ==
    /\ [](/\ FracEq(LrFactor(125, 100, 150), <<1, 2>>)
          /\ LrDecayApplies(125, 100, 150) /\ ~LrDecayApplies(150, 100, 150)
          /\ (FreshTraining /\ pc # "lr_decay") =>
                LET f == FactorInForce(epoch, args.lr_decay_after, args.epochs)
                IN  /\ FracEq(optimizer_g.lr, <<lr_g * f[1], f[2]>>)
                    /\ FracEq(optimizer_d.lr, <<lr_d * f[1], f[2]>>))
    /\ [][(optimizer_g.lr' # optimizer_g.lr \/ optimizer_d.lr' # optimizer_d.lr) =>
              \/ pc \in {"boot", "done", "crashed", "exited", "load"}
              \/ pc = "lr_decay" /\ args.lr_decay_after <= epoch /\ epoch < args.epochs]_vars
    /\ [][(pc = "lr_decay" /\ pc' = "def_save") =>
              IF args.lr_decay_after <= epoch /\ epoch < args.epochs
              THEN /\ FracEq(optimizer_g.lr', <<lr_g * (args.epochs - epoch),
                                                args.epochs - args.lr_decay_after>>)
                   /\ FracEq(optimizer_d.lr', <<lr_d * (args.epochs - epoch),
                                                args.epochs - args.lr_decay_after>>)
              ELSE optimizer_g.lr' = optimizer_g.lr /\ optimizer_d.lr' = optimizer_d.lr]_vars

\* C9 witness: D = 0, E = 2: after the recomputation at epoch 1 both rates are
\* half their base value.
C9_Witness ==
    /\ FreshTraining /\ pc = "def_save"
    /\ args.lr_decay_after = 0 /\ args.epochs = 2 /\ epoch = 1
    /\ FracEq(optimizer_g.lr, <<lr_g, 2>>) /\ FracEq(optimizer_d.lr, <<lr_d, 2>>)

\* The tensor t holds, row by row, the samples 1..N of origin src (for a
\* discriminator output: the outputs for those samples).
RowsOf(t, src) ==
    /\ t.kind = "tensor"
    /\ Len(t.rows) = dstep.N
    /\ \A j \in 1..dstep.N : t.rows[j].src = src /\ t.rows[j].id = j

\* part is the share of the output element whole that belongs to the samples
\* of origin src: its first N rows for "fake", its last N rows for "real";
\* None stays None.
ShareOfElem(part, whole, src) ==
    IF whole.kind = "none" THEN part = None
    ELSE /\ RowsOf(part, src)
         /\ Len(whole.rows) = 2 * dstep.N
         /\ \A j \in 1..dstep.N :
               part.rows[j] = whole.rows[IF src = "fake" THEN j ELSE dstep.N + j]

ShareOf(part, whole, src) ==
    IF whole.kind = "list"
    THEN /\ part.kind = "list"
         /\ Len(part.elems) = Len(whole.elems)
         /\ \A j \in 1..Len(whole.elems) : ShareOfElem(part.elems[j], whole.elems[j], src)
    ELSE ShareOfElem(part, whole, src)

\* The combined input x has the N fake samples first and the N real ones second.
FakeThenReal(x) ==
    /\ Len(x) = 2 * dstep.N
    /\ \A j \in 1..dstep.N :
          /\ x[j] = dstep.X_fake[j] /\ x[j].src = "fake"
          /\ x[dstep.N + j] = dstep.X_real[j] /\ x[dstep.N + j].src = "real"

\* C10: in the discriminator step every combined input holds the N fake
\* samples first and the N real samples second; divide_pred returns the first N
\* rows of the discriminator output (and of the mask) as fake and the last N as
\* real, for a tensor and element-wise for a list, None staying None; the
\* reject-fake loss receives only outputs for generated samples and the
\* accept-real loss only outputs for real samples.
C10_FakeRealSplit ==
    /\ dstep.pc \in {"discriminate", "divide", "loss", "returned"} =>
          /\ FakeThenReal(dstep.X_combined)
          /\ dstep.X_combined_mesh # None => FakeThenReal(dstep.X_combined_mesh.rows)
          /\ dstep.seg_combined # None => FakeThenReal(dstep.seg_combined.rows)
    /\ dstep.pc \in {"loss", "returned"} =>
          /\ ShareOf(dstep.discriminated_fake, dstep.discriminated, "fake")
          /\ ShareOf(dstep.discriminated_real, dstep.discriminated, "real")
          /\ ShareOf(dstep.mask_fake, dstep.mask, "fake")
          /\ ShareOf(dstep.mask_real, dstep.mask, "real")
    /\ dstep.pc = "returned" =>
          /\ ~dstep.loss_fake.target_is_real
          /\ ShareOf(dstep.loss_fake.input, dstep.discriminated, "fake")
          /\ ShareOf(dstep.loss_fake.mask, dstep.mask, "fake")
          /\ dstep.loss_real.target_is_real
          /\ ShareOf(dstep.loss_real.input, dstep.discriminated, "real")
          /\ ShareOf(dstep.loss_real.mask, dstep.mask, "real")

\* C10 witness: a batch of two, a two-head list output and a mask list with a
\* None element, after both losses were computed.
C10_Witness ==
    /\ dstep.pc = "returned" /\ dstep.N = 2
    /\ dstep.discriminated.kind = "list" /\ Len(dstep.discriminated.elems) = 2
    /\ dstep.discriminated.elems[2].kind = "tensor"
    /\ dstep.mask.kind = "list" /\ Len(dstep.mask.elems) = 2
    /\ dstep.mask.elems[1].kind = "none" /\ dstep.mask.elems[2].kind = "tensor"
    /\ dstep.loss_fake.input.elems[2].rows[2] = [src |-> "fake", id |-> 2, head |-> 2]
    /\ dstep.loss_real.input.elems[2].rows[1] = [src |-> "real", id |-> 1, head |-> 2]
    /\ dstep.loss_fake.mask.elems[1] = None

\* The least multiple of r that is >= n.
LeastMultiple(n, r) == CHOOSE m \in n..(n + r) : m % r = 0 /\ \A k \in n..(m - 1) : k % r # 0

\* The input tensor t, as passed to the inference call, is the original batch
\* followed by zero rows up to m rows (None stays None).
PaddedTo(t, orig, m) ==
    IF orig = None THEN t = None
    ELSE /\ Len(t.rows) = m
         /\ \A j \in 1..m : t.rows[j] = IF j <= pad.N THEN orig.rows[j] ELSE 0

\* The output tensor t has exactly N rows and row j was computed from row j of
\* the inputs (None stays None).
RoundTrip(t) ==
    t = None \/
      /\ Len(t.rows) = pad.N
      /\ \A j \in 1..pad.N :
            t.rows[j] = [noise |-> pad.noise.rows[j], c |-> RowOrNone(pad.c, j),
                         seg |-> RowOrNone(pad.seg, j)]

\* Everything the padding claim says but the truncation of the segmentation.
PadRoundTripButSeg ==
    pad.pc = "done" =>
        LET m == LeastMultiple(pad.N, pad.R)
        IN  /\ Len(pad.calls) = 1
            /\ PaddedTo(pad.calls[1].noise, pad.noise, m)
            /\ PaddedTo(pad.calls[1].c, pad.c, m)
            /\ PaddedTo(pad.calls[1].seg, pad.seg, m)
            /\ pad.N % pad.R = 0 => pad.calls[1].noise = pad.noise
            /\ RoundTrip(pad.pred_tex)
            /\ RoundTrip(pad.pred_mesh_map)
            /\ RoundTrip(pad.attn_map)

\* C11 (as claimed): after the inference call of a batch of N samples on R
\* replicas, exactly one call was made, on the noise and every active
\* conditioning tensor padded with zero rows to the least multiple of R that is
\* >= N (no padding when N mod R = 0), and every returned output has exactly its
\* first N rows, row i computed from input row i.
C11_PadRoundTrip ==
    /\ PadRoundTripButSeg
    /\ pad.pc = "done" => RoundTrip(pad.pred_seg)

\* C11 (amended): as claimed for the inputs, the single call and the outputs
\* that are truncated: the texture, the mesh map, the attention map when there
\* is one, and the segmentation when predict_semantics is set; without
\* predict_semantics the returned segmentation keeps the rows of the padded call.
C11_PadRoundTripExceptUnusedSeg ==
    /\ PadRoundTripButSeg
    /\ pad.pc = "done" =>
          IF pad.predict_semantics THEN RoundTrip(pad.pred_seg)
          ELSE pad.pred_seg = InferenceOutput(pad.calls[1].noise, pad.calls[1].c,
                                              pad.calls[1].seg)

\* C11 witness: four samples on three replicas, class conditioning: the call
\* was made on six rows and the texture came back with four.
C11_Witness ==
    /\ pad.pc = "done" /\ pad.N = 4 /\ pad.R = 3 /\ pad.c # None
    /\ pad.calls[1].noise.rows = <<1, 2, 3, 4, 0, 0>>
    /\ pad.calls[1].c.rows = <<1, 2, 3, 4, 0, 0>>
    /\ Len(pad.pred_tex.rows) = 4
    /\ pad.pred_tex.rows[4] = [noise |-> 4, c |-> 4, seg |-> -1]

\* C12: the rejection loop of the truncated-noise sampler terminates (under
\* the fairness of FairSpecNoise); on termination every coordinate has an
\* absolute value <= sigma; and each round redraws only the coordinates that
\* are out of bound, every in-bound coordinate keeping its value.
C12_TruncatedNoise ==
    /\ [](sampler.pc = "done" =>
             \A k \in DOMAIN sampler.x :
                sampler.x[k] <= sampler.sigma /\ 0 - sampler.sigma <= sampler.x[k])
    /\ [][(sampler.pc = "while" /\ sampler'.pc = "while") =>
             /\ DOMAIN sampler'.x = DOMAIN sampler.x
             /\ sampler'.sigma = sampler.sigma
             /\ \A k \in DOMAIN sampler.x :
                   (sampler.x[k] <= sampler.sigma /\ 0 - sampler.sigma <= sampler.x[k])
                      => sampler'.x[k] = sampler.x[k]]_vars
    /\ (sampler.pc = "while") ~> (sampler.pc = "done")

\* C12 witness: a draw with a coordinate below -sigma and one in bound ended
\* after at least one rejection round.
C12_Witness ==
    /\ sampler.pc = "done" /\ sampler.redrawn
    /\ Len(sampler.x) = 2 /\ sampler.sigma = 1
    /\ sampler.x[1] = -1 /\ sampler.x[2] = 1

\* The number of elements of the set S that are TRUE.
CountTrue(S) == Cardinality({x \in S : x[2]})

\* C13: in every training and evaluation batch of a run that passed
\* validation, exactly one of {class, caption, none} is the primary
\* conditioning (class label and caption are never both set, class wins) and
\* exactly one of {'seg', 'seg_inv_rend', none} is the segmentation source, both
\* the same for every batch of the run; a command line with both
\* conditional_semantics and predict_semantics fails at startup, before any
\* batch.
C13_ExclusiveConditioning ==
    /\ [](cond.pc = "batch" =>
            /\ CountTrue({<<"class", cond.C = "class" /\ cond.caption = "None">>,
                          <<"caption", cond.C = "None" /\ cond.caption = "caption">>,
                          <<"none", cond.C = "None" /\ cond.caption = "None">>}) = 1
            /\ ~(cond.C # "None" /\ cond.caption # "None")
            /\ cond.flags.conditional_class => cond.C = "class"
            /\ cond.C = "class" => cond.flags.conditional_class
            /\ cond.caption = "caption" =>
                  cond.flags.conditional_text /\ ~cond.flags.conditional_class
            /\ cond.seg \in {"seg", "seg_inv_rend", "None"}
            /\ cond.seg = "seg" <=> cond.flags.conditional_semantics
            /\ cond.seg = "seg_inv_rend" <=> cond.flags.predict_semantics
            /\ ~(cond.flags.conditional_semantics /\ cond.flags.predict_semantics))
    /\ []((cond.pc # "start" /\ cond.pc # "assert"
             /\ cond.flags.conditional_semantics /\ cond.flags.predict_semantics) =>
            cond.pc = "AssertionError" /\ cond.batches = 0)
    /\ [][(cond.pc = "batch" /\ cond'.pc = "batch") =>
            /\ cond'.C = cond.C /\ cond'.caption = cond.caption /\ cond'.seg = cond.seg
            /\ cond'.flags = cond.flags]_vars

\* C13 witness: a training run conditioned on the class and predicting
\* semantics, in an evaluation batch that follows a training batch.
C13_Witness ==
    /\ cond.pc = "batch" /\ cond.loop = "eval" /\ cond.batches = 2
    /\ cond.flags.conditional_class /\ cond.flags.predict_semantics /\ ~cond.flags.evaluate
    /\ cond.C = "class" /\ cond.caption = "None" /\ cond.seg = "seg_inv_rend"

\* The power the claim gives for epoch e.
ClaimedPower(e) == IF e < 10 THEN 100 ELSE IF 10 <= e /\ e < 100 THEN 10 ELSE 1

PeriodicSavesDone == {"evaluate", "after_loop", "finish", "done"}

\* An epoch was completed in this run (a step of epoch e - 1 was made).
TrainedEpoch(e) == \E j \in 1..Len(hist.steps) : hist.steps[j].epoch = e - 1

\* n is total_it at the end of epoch e of this run: one more than the
\* iteration number of the last step of epoch e - 1.
IsIterationsAtEndOf(n, e) ==
    \E j \in 1..Len(hist.steps) :
        /\ hist.steps[j].epoch = e - 1
        /\ hist.steps[j].t = n - 1
        /\ \A m \in 1..Len(hist.steps) :
              hist.steps[m].epoch = e - 1 => hist.steps[m].t <= hist.steps[j].t

\* C15 (as claimed): in a training run that is not interrupted, once epoch e >= 1
\* is completed and its saves are done, 'latest' has been written with the state
\* of epoch e iff e mod save_freq = 0, and the checkpoint tagged e iff
\* e mod checkpoint_freq = 0.
C15_SavesOnlyAtFrequencies ==
    (TrainingRun /\ ~hist.interrupted /\ epoch >= 1 /\ TrainedEpoch(epoch)
       /\ pc \in PeriodicSavesDone) =>
        /\ (saved[LATEST] = LiveState) <=> (epoch % args.save_freq = 0)
        /\ (saved[epoch] = LiveState) <=> (epoch % args.checkpoint_freq = 0)

\* C15 (amended): at the periodic saves after a completed epoch e, 'latest' is
\* written iff e mod save_freq = 0 and the checkpoint tagged e iff
\* e mod checkpoint_freq = 0, each whatever the other does and touching no other
\* file; the checkpoint tagged e records epoch = e and stays as written for the
\* rest of the run; and the final save at the end of a training run writes
\* 'latest' whatever e mod save_freq is.
C15_PeriodicSaves ==
    /\ [][(pc = "save_latest" /\ pc' = "save_numbered") =>
            IF epoch % args.save_freq = 0
            THEN /\ files'[LATEST] = OutDict /\ files'[LATEST].epoch = epoch
                 /\ \A t \in 1..MaxEpochs : files'[t] = files[t]
            ELSE files' = files]_vars
    /\ [][(pc = "save_numbered" /\ pc' = "evaluate") =>
            IF epoch % args.checkpoint_freq = 0
            THEN /\ files'[epoch] = OutDict /\ files'[epoch].epoch = epoch
                 /\ \A t \in Tags \ {epoch} : files'[t] = files[t]
            ELSE files' = files]_vars
    /\ [][(pc = "after_loop" /\ pc' = "finish" /\ ~args.evaluate) =>
            files'[LATEST] = OutDict]_vars
    /\ [](\A e \in 1..MaxEpochs :
            (/\ TrainingRun /\ TrainedEpoch(e)
             /\ e % args.checkpoint_freq = 0
             /\ \/ epoch > e
                \/ epoch = e /\ pc = "evaluate"
                \/ epoch = e /\ ~hist.interrupted /\ pc \in PeriodicSavesDone)
            => /\ files[e].present /\ files[e].epoch = e
               /\ IsIterationsAtEndOf(files[e].iteration, e))

\* C15 witness: save_freq = 2 and checkpoint_freq = 1, after the saves of epoch
\* 1 and a further epoch: 'latest' was not written at epoch 1, checkpoint 1 was,
\* and checkpoint 1 still holds the state of epoch 1 at epoch 2.
C15_Witness ==
    /\ TrainingRun /\ run = 1 /\ ~hist.interrupted
    /\ args.save_freq = 2 /\ args.checkpoint_freq = 1
    /\ epoch = 2 /\ pc = "evaluate"
    /\ files[1].present /\ files[1].epoch = 1
    /\ files[2].present /\ files[2].epoch = 2
    /\ files[LATEST].epoch = 2

IsSymmetric(M, n) == \A r \in 1..n, c \in 1..n : M[<<r, c>>] = M[<<c, r>>]
HoldsUpperTriangle(M, n) == \A r \in 1..n, c \in 1..n : r > c => M[<<r, c>>] = 0
HoldsLowerTriangle(M, n) == \A r \in 1..n, c \in 1..n : r < c => M[<<r, c>>] = 0

\* C16 (as claimed): when the stored matrix holds the upper triangle with the
\* diagonal, the real-side covariance used for the FID is symmetric, its lower
\* triangle being the mirror of the stored upper triangle and its diagonal the
\* stored diagonal.
C16_SymmetricFromUpper ==
    (stats.pc = "used" /\ HoldsUpperTriangle(stats.stats_s, stats.n)) =>
        /\ IsSymmetric(stats.used, stats.n)
        /\ \A r \in 1..stats.n, c \in 1..stats.n :
              stats.used[<<r, c>>] = IF r <= c THEN stats.stats_s[<<r, c>>]
                                     ELSE stats.stats_s[<<c, r>>]

\* C16 (amended): when the stored matrix holds the lower triangle with the
\* diagonal, the real-side covariance used for every FID computation is
\* symmetric: its upper triangle is the mirror of the stored lower triangle and
\* the diagonal is the stored diagonal, not doubled.
C16_SymmetricFromLower ==
    (stats.pc \in {"ready", "used"} /\ HoldsLowerTriangle(stats.stats_s, stats.n)) =>
        /\ IsSymmetric(stats.s_real_val, stats.n)
        /\ \A r \in 1..stats.n, c \in 1..stats.n :
              stats.s_real_val[<<r, c>>] = IF r >= c THEN stats.stats_s[<<r, c>>]
                                           ELSE stats.stats_s[<<c, r>>]
        /\ stats.pc = "used" => stats.used = stats.s_real_val

\* C16 witness: the stored lower triangle (1, -1 / 1) has become the symmetric
\* matrix with -1 off the diagonal and was used for a distance.
C16_Witness ==
    /\ stats.pc = "used" /\ stats.n = 2
    /\ stats.stats_s = [ij \in (1..2) \X (1..2) |->
                           IF ij = <<2, 1>> THEN -1 ELSE IF ij = <<1, 2>> THEN 0 ELSE 1]
    /\ stats.used[<<1, 2>>] = -1 /\ stats.used[<<2, 1>>] = -1
    /\ stats.used[<<1, 1>>] = 1 /\ stats.used[<<2, 2>>] = 1

\* ---------------------------------------------------------------------------
\* Which part of the state each step of the training loop writes.

EvaluatePcs == {"evaluate", "scan_eval", "final_eval"}
counterVars == <<epoch, total_it, i>>

DStepFrame ==
    pc \in DiscriminatorStepPcs =>
        UNCHANGED <<generator, generator_running_avg, optimizer_g, g_curve, flat_curve,
                    counterVars, files>>

GStepFrame ==
    pc \in GeneratorStepPcs =>
        /\ UNCHANGED <<discriminator, optimizer_d, d_fake_curve, d_real_curve,
                       counterVars, files>>
        /\ (pc = "g_opt" /\ pc' = "g_avg") =>
                /\ generator' # generator
                /\ optimizer_g' # optimizer_g
                /\ generator_running_avg' = generator_running_avg
        /\ (pc = "g_avg" /\ pc' = "g_curve") =>
                /\ generator_running_avg' =
                       update_generator_running_avg(generator_running_avg, generator)
                /\ generator_running_avg' # generator_running_avg
                /\ UNCHANGED <<generator, optimizer_g>>
        /\ ~(pc = "g_avg" /\ pc' = "g_curve") => UNCHANGED generator_running_avg

EvaluateFrame ==
    pc \in EvaluatePcs => UNCHANGED <<modelVars, counterVars, curveVars, files>>

\* In a run that trains from the freshly constructed networks, the shadow has
\* been updated once per generator step taken so far.
ShadowUpdatedOncePerGStep ==
    (pc \in TryBlock /\ hist.loaded = NoFile) =>
        /\ optimizer_g.steps = generator.steps
        /\ optimizer_d.steps = discriminator.steps
        /\ generator_running_avg.avg = generator.steps - (IF pc = "g_avg" THEN 1 ELSE 0)

ShadowStartsAsCopy == pc = "load" => generator_running_avg = generator

\* C17: a discriminator step leaves the generator, the shadow generator and the
\* generator optimizer alone; a generator step changes the generator and its
\* optimizer, then updates the shadow exactly once through
\* update_generator_running_avg, and leaves the discriminator and its optimizer
\* alone; an FID evaluation changes no weights, no optimizer and no counter;
\* the shadow generator is constructed as a copy of the generator.
C17_ExclusiveMutation ==
    /\ [](ShadowUpdatedOncePerGStep /\ ShadowStartsAsCopy)
    /\ [][DStepFrame /\ GStepFrame /\ EvaluateFrame]_vars

\* A fresh training run has completed a generator step and a discriminator step.
C17_Witness ==
    /\ pc = "it_inc"
    /\ hist.loaded = NoFile
    /\ generator.steps = 1
    /\ generator_running_avg.avg = 1
    /\ discriminator.steps = 1
    /\ Len(d_real_curve) = 2

\* ---------------------------------------------------------------------------
\* The least number of passes of L items that covers n items.
CeilDiv(n, L) == CHOOSE p \in 0..n : p * L >= n /\ (p = 0 \/ (p - 1) * L < n)

PairwiseDistinct(seq) == \A a, b \in 1..Len(seq) : a # b => seq[a] # seq[b]

SamePositions(used, variant) ==
    /\ Len(used) = fidrun.n
    /\ \A k \in 1..fidrun.n :
         /\ used[k].variant = variant
         /\ used[k].pass = fidrun.used_combined[k].pass
         /\ used[k].idx = fidrun.used_combined[k].idx

\* C18: for an evaluation data set of L >= 1 items and n >= 1 reference
\* images, the evaluator makes ceil(n/L) full passes, so at least n embeddings
\* are accumulated, and the FID statistics use exactly n pairwise distinct
\* accumulated embeddings, at the same positions for the combined, the
\* texture-only and the mesh-only variant.
C18_FidSubsample ==
    /\ fidrun.pc # "error"
    /\ fidrun.pc # "idle" => fidrun.num_passes = CeilDiv(fidrun.n, fidrun.L)
    /\ fidrun.pc \in {"subsample", "done"} =>
         /\ Len(fidrun.emb_arr_fake_combined) = fidrun.num_passes * fidrun.L
         /\ Len(fidrun.emb_arr_fake_combined) >= fidrun.n
         /\ \A p \in 0..(fidrun.num_passes - 1), x \in 0..(fidrun.L - 1) :
              fidrun.emb_arr_fake_combined[p * fidrun.L + x + 1] = Embedding(p, x, "combined")
    /\ fidrun.pc = "done" =>
         /\ Len(fidrun.used_combined) = fidrun.n
         /\ PairwiseDistinct(fidrun.val_indices)
         /\ PairwiseDistinct(fidrun.used_combined)
         /\ \A k \in 1..fidrun.n :
              fidrun.used_combined[k] = fidrun.emb_arr_fake_combined[fidrun.val_indices[k]]
         /\ fidrun.has_pseudogt =>
              /\ SamePositions(fidrun.used_texture_only, "texture_only")
              /\ SamePositions(fidrun.used_mesh_only, "mesh_only")

\* An evaluation that needed more than one pass, whose last pass gave more
\* embeddings than are used, has computed the three subsamples.
C18_Witness ==
    /\ fidrun.pc = "done"
    /\ fidrun.has_pseudogt
    /\ fidrun.num_passes = 2
    /\ fidrun.n = 3
    /\ fidrun.L = 2
    /\ fidrun.batch_size = 2

\* ---------------------------------------------------------------------------
\* The generator state each draw of the k-th batch is made from when the call
\* starts from the fixed seed.
FromFixedSeed(noise) == \A k \in 1..Len(noise) : noise[k] = [seed |-> <<FixedSeed>>, draws |-> k - 1]

EvaluateCallsRepeat ==
    (rng.pc # "idle" /\ rng.evaluate) =>
        /\ \A k \in 1..Len(rng.calls) :
             /\ FromFixedSeed(rng.calls[k].noise)
             /\ rng.calls[k].val_indices = [seed |-> <<FixedSeed>>, draws |-> 0]
        /\ \A k, l \in 1..Len(rng.calls) : rng.calls[k] = rng.calls[l]
        /\ rng.pc = "loop" => FromFixedSeed(rng.noise)

TrainingNeverReseeds ==
    (rng.pc # "idle" /\ ~rng.evaluate) =>
        /\ rng.torch.seed = <<>>
        /\ rng.numpy.seed = <<>>

StreamNotReset ==
    (rng.pc # "idle" /\ ~rng.evaluate) =>
        /\ rng'.torch.draws >= rng.torch.draws
        /\ rng'.numpy.draws >= rng.numpy.draws

\* C19: in evaluate mode every call of evaluate_fid draws its noise and its
\* subsample from generators just set to the fixed seed, so two calls draw the
\* same noise and the same subsample; a call made between training epochs
\* reseeds no generator and does not reset the training random stream.
C19_Seeding ==
    /\ [](EvaluateCallsRepeat /\ TrainingNeverReseeds)
    /\ [][StreamNotReset]_vars

\* Two calls have returned in evaluate mode, the first having drawn the 16
\* indices to render before the reseed.
C19_Witness ==
    /\ rng.pc = "between"
    /\ rng.evaluate
    /\ ~rng.filter_class
    /\ rng.batches = 2
    /\ Len(rng.calls) = 2

\* ---------------------------------------------------------------------------
\* C20: the visualization tensors have one row per requested index, in the
\* requested order, for any requested list, also over more than one pass and
\* with a repeated index.
C20_RequestedOrder ==
    /\ grid.pc # "error"
    /\ grid.pc = "done" =>
         /\ Len(grid.sample_fake) = Len(grid.indices_to_render)
         /\ \A j \in DOMAIN grid.indices_to_render :
              grid.sample_fake[j].idx = grid.indices_to_render[j]

\* The same for the lists without a repeated index: these are reordered as
\* requested, over one pass or more.
C20_RequestedOrderIfDistinct ==
    (\A a, b \in DOMAIN grid.indices_to_render :
        a # b => grid.indices_to_render[a] # grid.indices_to_render[b])
    => C20_RequestedOrder

\* Two distinct indices requested in descending order, collected over two passes.
C20_Witness ==
    /\ grid.pc = "done"
    /\ grid.num_passes = 2
    /\ grid.L = 2
    /\ grid.indices_to_render = <<1, 0>>

\* ---------------------------------------------------------------------------
\* The run trains from the freshly constructed networks and the initial curves.
FromScratch == TrainingRun /\ ~args.continue_train

\* The position is between two iterations of the batch loop.
IterationBoundary == pc \in {"loop_head", "for", "epoch_inc", "lr_decay", "def_save",
                             "save_latest", "save_numbered", "evaluate"}

IsPrefix(s, t) == Len(s) <= Len(t) /\ SubSeq(t, 1, Len(s)) = s

\* The accounting of the live training state.
Accounting ==
    /\ Len(d_fake_curve) = Len(d_real_curve)
    /\ Len(g_curve) - 1 = generator.steps
    /\ (Len(g_curve) - 1) + (Len(d_fake_curve) - 1) = total_it

OnlyGrows ==
    /\ IsPrefix(g_curve, g_curve')
    /\ IsPrefix(d_fake_curve, d_fake_curve')
    /\ IsPrefix(d_real_curve, d_real_curve')
    /\ IsPrefix(flat_curve, flat_curve')
    /\ epoch' >= epoch
    /\ total_it' >= total_it

\* C21: in a run started from scratch, at every iteration boundary and in
\* every checkpoint written (periodic, final or after an interrupt),
\* len(d_fake_curve) = len(d_real_curve), len(g_curve) - 1 is the number of
\* generator steps taken and (len(g_curve) - 1) + (len(d_fake_curve) - 1) is
\* the iteration counter; the curves only grow by appends and the counters
\* never decrease.
C21_TrainingAccounting ==
    /\ []((FromScratch /\ IterationBoundary) => Accounting)
    /\ [][(FromScratch /\ run' = run) => OnlyGrows]_vars
    /\ [][(FromScratch /\ files' # files) => Accounting]_vars

\* The same, the checkpoint written after an interrupt left aside.
C21_AccountingUninterrupted ==
    /\ []((FromScratch /\ IterationBoundary) => Accounting)
    /\ [][(FromScratch /\ run' = run) => OnlyGrows]_vars
    /\ [][(FromScratch /\ files' # files /\ ~hist.interrupted) => Accounting]_vars

\* ---------------------------------------------------------------------------
\* The startup load of a resumed run failed (no file, or a file without the
\* training state): the run never reached the training loop.
StartupFailed == args.continue_train /\ (~hist.loaded.present \/ ~hist.loaded.has_train)

\* The epoch a run starts at: the checkpoint's for a resumed run, else 0.
StartEpoch == IF hist.loaded.present /\ hist.loaded.has_epoch THEN hist.loaded.epoch ELSE 0

\* The epochs in which the run has selected a step.
EpochsExecuted == {hist.steps[k].epoch : k \in DOMAIN hist.steps}

\* C22: a training run that is not interrupted terminates: started at epoch e0
\* with E total epochs it executes exactly max(0, E - e0) epochs, writes the
\* final 'latest' checkpoint recording the final epoch and reaches Done, also
\* when E = 0 or e0 >= E and no epoch remains.
C22_TrainingTerminates ==
    (TrainingRun /\ ~hist.interrupted /\ ~StartupFailed) =>
        /\ pc # "crashed"
        /\ pc \in {"finish", "done"} =>
             /\ Cardinality(EpochsExecuted) = Max(0, args.epochs - StartEpoch)
             /\ files[LATEST] = OutDict
             /\ files[LATEST].epoch = Max(args.epochs, StartEpoch)

\* The same for the runs in which at least one epoch remains.
C22_TerminatesIfEpochRemains ==
    (StartEpoch < args.epochs) => C22_TrainingTerminates

\* ---------------------------------------------------------------------------
\* The process was started with --evaluate or with --export_sample.
EvaluateMode == run >= 1 /\ (args.evaluate \/ args.export_sample)

TrainingPcs == GeneratorStepPcs \cup DiscriminatorStepPcs
                 \cup {"it_inc", "epoch_inc", "lr_decay", "def_save", "save_latest",
                       "save_numbered", "evaluate"}

NoTraining ==
    EvaluateMode =>
        /\ pc \notin TrainingPcs
        /\ hist.steps = <<>>
        /\ hist.log_file = "none"
        /\ optimizer_g = NoOptimizer
        /\ optimizer_d = NoOptimizer

NothingPersisted ==
    (EvaluateMode /\ run' = run) =>
        UNCHANGED <<files, saved, optimizer_g, optimizer_d, discriminator>>

\* C23: in evaluate mode (--evaluate, or --export_sample, which implies it),
\* whatever the other flags and the checkpoint loaded, no generator or
\* discriminator step is executed, no optimizer is stepped and no checkpoint
\* or log file is created or overwritten: the checkpoint directory is the same
\* after the run as before it.
C23_EvaluateIsReadOnly ==
    /\ []NoTraining
    /\ [][NothingPersisted]_vars

\* An --export_sample run has loaded a checkpoint written by a training run
\* and has finished.
C23_Witness ==
    /\ EvaluateMode /\ args.export_sample
    /\ pc = "done"
    /\ hist.loaded.has_train
    /\ files[LATEST] = hist.loaded
    /\ files[LATEST].iteration >= 2

\* ---------------------------------------------------------------------------
\* The run passed the startup derivation.
ItersAccepted == itersrun.pc \in {"while", "triggers", "error", "done"}

\* C24: with --iters, for every iteration count, data set size and batch size
\* accepted at startup, the derived epoch count and the derived evaluation and
\* checkpoint intervals are at least 1, and the run never aborts on the
\* end-of-epoch triggers: it runs all the derived epochs.
C24_ItersDerivation ==
    ItersAccepted =>
        /\ itersrun.epochs >= 1
        /\ itersrun.evaluate_freq >= 1
        /\ itersrun.checkpoint_freq >= 1
        /\ itersrun.pc # "error"
        /\ itersrun.pc = "done" => itersrun.epoch = itersrun.epochs

\* The same for the runs of at least EvaluationsPerRun derived epochs.
C24_ItersDerivationIfLong ==
    (itersrun.epochs >= EvaluationsPerRun) => C24_ItersDerivation

====
